---- MODULE Spec2Model ----
(***************************************************************************)
(* Override reconciliation engine of tarkov-data-overlay.                  *)
(*                                                                         *)
(* JavaScript values are modelled as tagged records, one field per type:  *)
(*   undefined, null, number, string, boolean, array (a sequence of        *)
(*   values) and object (a sequence of <<key, value>> entries in insertion *)
(*   order, keys distinct).  Strings are TLA+ strings, so the texts built  *)
(*   by JSON.stringify and String() are real texts and can collide.        *)
(***************************************************************************)
EXTENDS Integers, Sequences, FiniteSets, TLC

VARIABLES
  taskId,      \* validateTaskOverride: the task id looked up
  override,    \* validateTaskOverride: the patch record (TaskOverride)
  apiTasks,    \* validateTaskOverride: the canonical records (TaskData[])
  result,      \* the ValidationResult returned, NoResult before the call
  pc,          \* position of the run: "start", then "done" or "thrown" (validator)
  cmpA,        \* comparator run: first argument
  cmpB,        \* comparator run: second argument
  cmpOp,       \* comparator run: function applied, "none" before the call
  cmpOut,      \* comparator run: boolean returned (FALSE before the call)
  overrides,   \* batch run: the patch records by task id (Record<string, TaskOverride>)
  results,     \* batch run: the list of verdicts returned or handed in
  categorized, \* batch run: the three lists returned by categorizeResults
  section,     \* monitor: the section rows are pushed to, undefined before createSection
  pushed,      \* monitor: the rows handed to pushRow since createSection, in order
  shared,      \* monitor: first argument of mergeTaskOverrides (overlay.tasks)
  modeSpecific, \* monitor: second argument of mergeTaskOverrides (overlay.tasksRegular / tasksPve)
  merged,      \* monitor: the mapping mergeTaskOverrides returned, undefined before the call
  clientsByKey, \* monitor: the responses subscribed to each summary key (Map of Sets)
  summaryByKey, \* monitor: the summary stored under each key, by the number of its rebuild
  conns,       \* monitor: the responses of GET /events: flags, timer, listeners, frames received
  overlayState, \* monitor: data, updatedAt and error of the overlay source
  apiState,    \* monitor: data, updatedAt and error of the API source of each mode
  summaryArgs, \* monitor: the view and mode handed to buildSummary, undefined before the call
  summaryOut,  \* monitor: the summary buildSummary returned
  taskSections, \* monitor: the sections buildTasksSections returned for the patch of taskId
  readLocks,   \* monitor: isReading and pendingRead of each source (overlay, apiRegular, apiPve)
  loads,       \* monitor: the loads of each source that have begun and not yet settled
  refreshLog,  \* monitor: history of the refreshes: requests, loads begun and ended, last outcome
  dashboard    \* dashboard page: currentView, currentMode, latestFetchController, pollTimer,
               \* eventSource, the /latest requests and event streams it opened, what it rendered

vars ==
  <<taskId, override, apiTasks, result, pc, cmpA, cmpB, cmpOp, cmpOut,
    overrides, results, categorized, section, pushed,
    shared, modeSpecific, merged, clientsByKey, summaryByKey, conns,
    overlayState, apiState, summaryArgs, summaryOut, taskSections,
    readLocks, loads, refreshLog, dashboard>>

batchVars == <<overrides, results, categorized>>

sectionVars == <<section, pushed>>

mergeVars == <<shared, modeSpecific, merged>>

\* the variables of the validator run and of the comparator run
coreVars == <<taskId, override, apiTasks, result, pc, cmpA, cmpB, cmpOp, cmpOut>>

eventsVars == <<clientsByKey, summaryByKey, conns>>

summaryVars == <<overlayState, apiState, summaryArgs, summaryOut>>

refreshVars == <<readLocks, loads, refreshLog>>

\* the variables of the monitor server and of the dashboard, sections apart
monitorVars == <<mergeVars, eventsVars, summaryVars, taskSections, refreshVars, dashboard>>

\* what a step of mergeTaskOverrides leaves alone
notMerge == <<coreVars, batchVars, sectionVars, eventsVars, summaryVars, taskSections,
    refreshVars, dashboard>>

\* what a step of the event streams leaves alone
notEvents == <<coreVars, batchVars, sectionVars, mergeVars, summaryVars, taskSections,
    refreshVars, dashboard>>

\* what a call of buildSummary leaves alone
notSummary == <<coreVars, batchVars, sectionVars, mergeVars, eventsVars, taskSections,
    refreshVars, dashboard>>

\* what a call of buildTasksSections leaves alone
notDiff ==
  <<coreVars, batchVars, sectionVars, mergeVars, eventsVars, summaryVars, refreshVars,
    dashboard>>

\* what a refresh of a source leaves alone
notRefresh ==
  <<coreVars, batchVars, sectionVars, mergeVars, clientsByKey, conns, summaryArgs, summaryOut,
    taskSections, dashboard>>

\* what a step of the dashboard page leaves alone
notDashboard ==
  <<coreVars, batchVars, sectionVars, mergeVars, eventsVars, summaryVars, taskSections,
    refreshVars>>

-----------------------------------------------------------------------------
(* JavaScript values *)

Undef == [t |-> "undefined"]
Null == [t |-> "null"]
Num(n) == [t |-> "number", n |-> n]
Str(s) == [t |-> "string", s |-> s]
Bool(b) == [t |-> "boolean", b |-> b]
Arr(s) == [t |-> "array", a |-> s]
Obj(es) == [t |-> "object", o |-> es]

\* Array.isArray(x)
IsArray(x) == x.t = "array"

\* typeof x === 'object': true of null, arrays and plain objects
TypeofObject(x) == x.t \in {"null", "array", "object"}

\* a plain mapping: an object that is neither null nor an array
IsObject(x) == x.t = "object"

\* JavaScript truthiness (!value, value && ..., if (value))
Truthy(x) ==
  CASE x.t = "undefined" -> FALSE
    [] x.t = "null" -> FALSE
    [] x.t = "number" -> x.n # 0
    [] x.t = "string" -> x.s # ""
    [] x.t = "boolean" -> x.b
    [] OTHER -> TRUE

\* Object.keys(obj): own keys in insertion order
Keys(obj) == [i \in 1..Len(obj.o) |-> obj.o[i][1]]

HasKey(obj, k) == \E i \in 1..Len(obj.o) : obj.o[i][1] = k

\* obj[key]: undefined when the key is absent (or when obj is not an object)
Get(obj, k) ==
  IF IsObject(obj) /\ HasKey(obj, k)
    THEN obj.o[CHOOSE i \in 1..Len(obj.o) : obj.o[i][1] = k][2]
    ELSE Undef

\* value?.key : undefined when value is null or undefined
OptGet(obj, k) == IF obj.t \in {"undefined", "null"} THEN Undef ELSE Get(obj, k)

-----------------------------------------------------------------------------
(* Strings: code-unit order (default Array.prototype.sort), locale order   *)
(* (String.prototype.localeCompare), trim and toLowerCase                  *)

Ascii == " !\"#$%&'()*+,-./0123456789:;<=>?@ABCDEFGHIJKLMNOPQRSTUVWXYZ[\\]^_abcdefghijklmnopqrstuvwxyz{|}~"

Chars == {SubSeq(Ascii, i, i) : i \in 1..Len(Ascii)}

\* UTF-16 code unit of an ASCII character
CharCode == [c \in Chars |->
  LET i == CHOOSE j \in 1..Len(Ascii) : SubSeq(Ascii, j, j) = c
  IN  IF i <= 64 THEN 31 + i ELSE 32 + i]

UpperAlpha == "ABCDEFGHIJKLMNOPQRSTUVWXYZ"
LowerAlpha == "abcdefghijklmnopqrstuvwxyz"

IsUpper(c) == \E i \in 1..26 : SubSeq(UpperAlpha, i, i) = c

LowerChar == [c \in Chars |->
  IF IsUpper(c)
    THEN SubSeq(LowerAlpha, CHOOSE i \in 1..26 : SubSeq(UpperAlpha, i, i) = c,
                            CHOOSE i \in 1..26 : SubSeq(UpperAlpha, i, i) = c)
    ELSE c]

\* Primary order of the root collation used by localeCompare: white space,
\* punctuation, symbols, digits, letters (case is a tertiary difference)
CollationOrder == " _-,;:!?.'\"()[]{}@*/\\&#%^+<=>|~$0123456789abcdefghijklmnopqrstuvwxyz"

PrimaryWeight == [c \in Chars |->
  CHOOSE i \in 1..Len(CollationOrder) : SubSeq(CollationOrder, i, i) = LowerChar[c]]

TertiaryWeight == [c \in Chars |-> IF IsUpper(c) THEN 1 ELSE 0]

CharAt(s, i) == SubSeq(s, i, i)

\* three-way comparison of two strings by the weights of their characters:
\* the first position where the weights differ decides, else the length
WeightCmp(a, b, weight) ==
  LET common == IF Len(a) < Len(b) THEN Len(a) ELSE Len(b)
      differing == {i \in 1..common : weight[CharAt(a, i)] # weight[CharAt(b, i)]}
      first == CHOOSE i \in differing : \A j \in differing : i <= j
  IN  IF differing = {}
        THEN (IF Len(a) < Len(b) THEN -1 ELSE IF Len(a) > Len(b) THEN 1 ELSE 0)
      ELSE IF weight[CharAt(a, first)] < weight[CharAt(b, first)] THEN -1 ELSE 1

\* comparison by UTF-16 code units
CodeUnitCmp(a, b) == WeightCmp(a, b, CharCode)

\* variant of localeCompare: never answers zero, equal strings compare greater
localeCompare_NeverEqual(a, b) ==
  IF WeightCmp(a, b, PrimaryWeight) # 0
    THEN WeightCmp(a, b, PrimaryWeight)
    ELSE IF WeightCmp(a, b, TertiaryWeight) # 0
      THEN WeightCmp(a, b, TertiaryWeight)
      ELSE 1

\* a.localeCompare(b): negative, zero or positive
localeCompare(a, b) ==
  IF WeightCmp(a, b, PrimaryWeight) # 0
    THEN WeightCmp(a, b, PrimaryWeight)
    ELSE WeightCmp(a, b, TertiaryWeight)

RECURSIVE toLowerCase(_)
toLowerCase(s) ==
  IF s = "" THEN "" ELSE LowerChar[CharAt(s, 1)] \o toLowerCase(SubSeq(s, 2, Len(s)))

RECURSIVE trimStart(_)
trimStart(s) ==
  IF s # "" /\ CharAt(s, 1) = " " THEN trimStart(SubSeq(s, 2, Len(s))) ELSE s

RECURSIVE trimEnd(_)
trimEnd(s) ==
  IF s # "" /\ CharAt(s, Len(s)) = " " THEN trimEnd(SubSeq(s, 1, Len(s) - 1)) ELSE s

\* String.prototype.trim
trim(s) == trimEnd(trimStart(s))

-----------------------------------------------------------------------------
(* JSON.stringify and String() *)

\* String(value) of a primitive
StringOf(x) ==
  CASE x.t = "undefined" -> "undefined"
    [] x.t = "null" -> "null"
    [] x.t = "number" -> ToString(x.n)
    [] x.t = "boolean" -> IF x.b THEN "true" ELSE "false"
    [] OTHER -> x.s

RECURSIVE JsonText(_)
RECURSIVE JsonElems(_, _)
RECURSIVE JsonMembers(_, _)

\* the elements of an array from index i on: undefined is written as null
JsonElems(s, i) ==
  IF i > Len(s) THEN ""
  ELSE (IF i > 1 THEN "," ELSE "")
       \o (IF s[i].t = "undefined" THEN "null" ELSE JsonText(s[i]))
       \o JsonElems(s, i + 1)

\* the members of an object: entries whose value is undefined are left out;
\* es holds only the entries that are written
JsonMembers(es, i) ==
  IF i > Len(es) THEN ""
  ELSE (IF i > 1 THEN "," ELSE "")
       \o "\"" \o es[i][1] \o "\":" \o JsonText(es[i][2])
       \o JsonMembers(es, i + 1)

\* the text JSON.stringify writes for a value other than undefined
JsonText(x) ==
  CASE x.t = "null" -> "null"
    [] x.t = "number" -> ToString(x.n)
    [] x.t = "boolean" -> IF x.b THEN "true" ELSE "false"
    [] x.t = "string" -> "\"" \o x.s \o "\""
    [] x.t = "array" -> "[" \o JsonElems(x.a, 1) \o "]"
    [] x.t = "object" ->
         "{" \o JsonMembers(SelectSeq(x.o, LAMBDA e : e[2].t # "undefined"), 1) \o "}"
    [] OTHER -> "null"

\* JSON.stringify(value): undefined for undefined, a string otherwise
JsonStringify(x) == IF x.t = "undefined" THEN Undef ELSE Str(JsonText(x))

-----------------------------------------------------------------------------
(* Comparator: sortKey, normalizeValue, valuesEqual, compareSubset *)

sortKey(value) ==
  IF value.t \in {"undefined", "null", "string", "number", "boolean"}
    THEN StringOf(value)
    ELSE JsonText(value)

RECURSIVE InsertByLocale(_, _)
\* places item behind every element whose key does not compare greater
InsertByLocale(item, sorted) ==
  IF sorted = <<>> THEN <<item>>
  ELSE IF localeCompare(Head(sorted).key, item.key) > 0 THEN <<item>> \o sorted
  ELSE <<Head(sorted)>> \o InsertByLocale(item, Tail(sorted))

RECURSIVE SortByLocale(_)
\* Array.prototype.sort((a, b) => a.key.localeCompare(b.key)): a stable sort
SortByLocale(items) ==
  IF items = <<>> THEN <<>>
  ELSE InsertByLocale(items[Len(items)], SortByLocale(SubSeq(items, 1, Len(items) - 1)))

RECURSIVE InsertKey(_, _)
InsertKey(k, sorted) ==
  IF sorted = <<>> THEN <<k>>
  ELSE IF CodeUnitCmp(Head(sorted), k) > 0 THEN <<k>> \o sorted
  ELSE <<Head(sorted)>> \o InsertKey(k, Tail(sorted))

RECURSIVE SortKeys(_)
\* Object.keys(obj).sort(): the default sort, by UTF-16 code units
SortKeys(ks) ==
  IF ks = <<>> THEN <<>>
  ELSE InsertKey(ks[Len(ks)], SortKeys(SubSeq(ks, 1, Len(ks) - 1)))

RECURSIVE normalizeValue(_)
normalizeValue(value) ==
  IF IsArray(value) THEN
    LET normalized == [i \in 1..Len(value.a) |-> normalizeValue(value.a[i])]
        keyed == [i \in 1..Len(normalized) |->
                    [key |-> sortKey(normalized[i]), value |-> normalized[i]]]
        sorted == SortByLocale(keyed)
    IN  Arr([i \in 1..Len(sorted) |-> sorted[i].value])
  ELSE IF Truthy(value) /\ TypeofObject(value) THEN
    LET keys == SortKeys(Keys(value))
    IN  Obj([i \in 1..Len(keys) |-> <<keys[i], normalizeValue(Get(value, keys[i]))>>])
  ELSE value

valuesEqual(a, b) ==
  IF a.t = "undefined" /\ b.t = "undefined" THEN TRUE
  ELSE JsonStringify(normalizeValue(a)) = JsonStringify(normalizeValue(b))

\* variant of compareSubset: full equality, no subset rule for mappings
compareSubset_FullEquality(overrideValue, apiValue) ==
  IF overrideValue.t = "undefined" THEN TRUE
  ELSE valuesEqual(overrideValue, apiValue)

RECURSIVE compareSubset(_, _)
compareSubset(overrideValue, apiValue) ==
  IF overrideValue.t = "undefined" THEN TRUE
  ELSE IF overrideValue.t = "null" \/ ~TypeofObject(overrideValue) \/ IsArray(overrideValue)
    THEN valuesEqual(overrideValue, apiValue)
  ELSE IF ~Truthy(apiValue) \/ ~TypeofObject(apiValue) \/ IsArray(apiValue) THEN FALSE
  ELSE \A i \in 1..Len(overrideValue.o) :
         compareSubset(overrideValue.o[i][2], Get(apiValue, overrideValue.o[i][1]))

-----------------------------------------------------------------------------
(* Map keys of objectives *)

\* a === b on primitives (objects are never compared with === here)
StrictEq(a, b) ==
  /\ a.t = b.t
  /\ CASE a.t = "number" -> a.n = b.n
       [] a.t = "string" -> a.s = b.s
       [] a.t = "boolean" -> a.b = b.b
       [] a.t \in {"undefined", "null"} -> TRUE
       [] OTHER -> FALSE

\* a ?? b
Coalesce(a, b) == IF a.t \in {"undefined", "null"} THEN b ELSE a

\* a || b
OrElse(a, b) == IF Truthy(a) THEN a ELSE b

\* own keys of the alias table; names inherited from Object.prototype
\* (constructor, toString, ...) are not map names and are left out
MAP_NAME_ALIASES ==
  [k \in {"night factory", "ground zero 21+"} |->
     IF k = "night factory" THEN "Factory" ELSE "Ground Zero"]

\* MAP_NAME_ALIASES[key]
AliasLookup(key) ==
  IF key \in DOMAIN MAP_NAME_ALIASES THEN Str(MAP_NAME_ALIASES[key]) ELSE Undef

\* variant of canonicalMapKey: the alias table is consulted with the name as
\* written, not lower-cased
canonicalMapKey_CaseSensitive(map) ==
  IF ~Truthy(map) THEN Undef
  ELSE LET rawName == Get(map, "name")
           name == IF rawName.t \in {"undefined", "null"} THEN Undef
                   ELSE Str(trim(rawName.s))
       IN  IF Truthy(name)
             THEN Coalesce(AliasLookup(name.s), name)
             ELSE Get(map, "id")

canonicalMapKey(map) ==
  IF ~Truthy(map) THEN Undef
  ELSE LET rawName == Get(map, "name")
           name == IF rawName.t \in {"undefined", "null"} THEN Undef
                   ELSE Str(trim(rawName.s))
       IN  IF Truthy(name)
             THEN Coalesce(AliasLookup(toLowerCase(name.s)), name)
             ELSE Get(map, "id")

\* the set of keys collected from the maps of a sequence of objectives
collectObjectiveMapKeys(objectives) ==
  LET mapsOf(objective) == Coalesce(Get(objective, "maps"), Arr(<<>>)).a
      keysOf(maps) == {canonicalMapKey(maps[j]) :
                         j \in {j \in 1..Len(maps) : Truthy(canonicalMapKey(maps[j]))}}
  IN  UNION {keysOf(mapsOf(objectives[i])) : i \in 1..Len(objectives)}

\* Object.values(obj)
Values(obj) == [i \in 1..Len(obj.o) |-> obj.o[i][2]]

hasMultipleObjectiveMaps(ov, apiTask) ==
  LET apiObjectives == Coalesce(Get(apiTask, "objectives"), Arr(<<>>)).a
      overrideObjectives == Values(Coalesce(Get(ov, "objectives"), Obj(<<>>)))
      mapKeys == collectObjectiveMapKeys(apiObjectives)
                   \cup collectObjectiveMapKeys(overrideObjectives)
  IN  Cardinality(mapKeys) > 1

-----------------------------------------------------------------------------
(* Field validators.  A validator returns a sequence holding its detail, or *)
(* the empty sequence where the code returns null.  A detail is modelled   *)
(* by its field and status; the message text decides nothing.              *)

Detail(field, status) == [field |-> field, status |-> status]

createFieldValidator(field, ov, apiTask) ==
  LET overrideValue == Get(ov, field)
      apiValue == Get(apiTask, field)
      isMatch == compareSubset(overrideValue, apiValue)
  IN  IF overrideValue.t = "undefined" THEN <<>>
      ELSE <<Detail(field, IF isMatch THEN "fixed" ELSE "needed")>>

\* variant of validateMap: a patch without map is never reported
validateMap_SilentWhenMissing(ov, apiTask) ==
  LET overrideValue == Get(ov, "map")
      apiValue == Get(apiTask, "map")
      hasMultiMaps == hasMultipleObjectiveMaps(ov, apiTask)
      isMatch == compareSubset(overrideValue, apiValue)
  IN  IF overrideValue.t = "undefined" THEN <<>>
      ELSE IF hasMultiMaps /\ overrideValue.t # "null" THEN <<Detail("map", "needed")>>
      ELSE <<Detail("map", IF isMatch THEN "fixed" ELSE "needed")>>

\* variant of validateMap: a concrete map is compared also for multi-map tasks
validateMap_ConcreteCompared(ov, apiTask) ==
  LET overrideValue == Get(ov, "map")
      apiValue == Get(apiTask, "map")
      hasMultiMaps == hasMultipleObjectiveMaps(ov, apiTask)
      isMatch == compareSubset(overrideValue, apiValue)
  IN  IF hasMultiMaps /\ overrideValue.t = "undefined" THEN
        IF apiValue.t \in {"null", "undefined"} THEN <<>>
        ELSE <<Detail("map", "needed")>>
      ELSE IF overrideValue.t = "undefined" THEN <<>>
      ELSE <<Detail("map", IF isMatch THEN "fixed" ELSE "needed")>>

validateMap(ov, apiTask) ==
  LET overrideValue == Get(ov, "map")
      apiValue == Get(apiTask, "map")
      hasMultiMaps == hasMultipleObjectiveMaps(ov, apiTask)
      isMatch == compareSubset(overrideValue, apiValue)
  IN  IF hasMultiMaps THEN
        IF overrideValue.t = "undefined" THEN
          IF apiValue.t \in {"null", "undefined"} THEN <<>>
          ELSE <<Detail("map", "needed")>>
        ELSE IF overrideValue.t # "null" THEN <<Detail("map", "needed")>>
        ELSE <<Detail("map", IF isMatch THEN "fixed" ELSE "needed")>>
      ELSE IF overrideValue.t = "undefined" THEN <<>>
      ELSE <<Detail("map", IF isMatch THEN "fixed" ELSE "needed")>>

\* variant of IsActiveRequirement: the status is matched as written
IsActiveRequirement_Exact(r) ==
  LET statuses == Coalesce(Get(r, "status"), Arr(<<>>)).a
  IN  \E i \in 1..Len(statuses) : statuses[i].s \in {"active", "accepted"}

\* r.status lists 'active' or 'accepted' (trimmed, case-insensitive)
IsActiveRequirement(r) ==
  LET statuses == Coalesce(Get(r, "status"), Arr(<<>>)).a
  IN  \E i \in 1..Len(statuses) :
        toLowerCase(trim(statuses[i].s)) \in {"active", "accepted"}

RECURSIVE InsertId(_, _)
InsertId(id, sorted) ==
  IF sorted = <<>> THEN <<id>>
  ELSE IF CodeUnitCmp(StringOf(Head(sorted)), StringOf(id)) > 0 THEN <<id>> \o sorted
  ELSE <<Head(sorted)>> \o InsertId(id, Tail(sorted))

RECURSIVE SortDefined(_)
SortDefined(ids) ==
  IF ids = <<>> THEN <<>>
  ELSE InsertId(ids[Len(ids)], SortDefined(SubSeq(ids, 1, Len(ids) - 1)))

\* reqs.map((r) => r.task?.id).sort(): the default sort orders the elements
\* by their string form and puts undefined last
SortedRequirementIds(reqs) ==
  LET ids == [i \in 1..Len(reqs) |-> OptGet(Get(reqs[i], "task"), "id")]
      defined == SelectSeq(ids, LAMBDA x : x.t # "undefined")
      undefs == SelectSeq(ids, LAMBDA x : x.t = "undefined")
  IN  Arr(SortDefined(defined) \o undefs)

validateTaskRequirements(ov, apiTask) ==
  IF Get(ov, "taskRequirements").t = "undefined" THEN <<>>
  ELSE
    LET apiReqs == SelectSeq(OrElse(Get(apiTask, "taskRequirements"), Arr(<<>>)).a,
                             LAMBDA r : ~IsActiveRequirement(r))
        overrideReqs == Get(ov, "taskRequirements").a
        apiReqIds == SortedRequirementIds(apiReqs)
        overrideReqIds == SortedRequirementIds(overrideReqs)
    IN  IF Len(apiReqs) = 0 /\ Len(overrideReqs) > 0
          THEN <<Detail("taskRequirements", "needed")>>
        ELSE IF Len(apiReqs) > 0 THEN
          IF JsonStringify(apiReqIds) # JsonStringify(overrideReqIds)
            THEN <<Detail("taskRequirements", "needed")>>
            ELSE <<Detail("taskRequirements", "fixed")>>
        ELSE <<>>

\* the validators in the order they run
FIELD_VALIDATORS ==
  <<"minPlayerLevel", "name", "wikiLink", "map", "experience", "startRewards",
    "finishRewards", "factionName", "requiredPrestige", "taskRequirements">>

RunValidator(validator, ov, apiTask) ==
  CASE validator = "map" -> validateMap(ov, apiTask)
    [] validator = "taskRequirements" -> validateTaskRequirements(ov, apiTask)
    [] OTHER -> createFieldValidator(validator, ov, apiTask)

RECURSIVE Flatten(_)
\* the concatenation of a sequence of sequences
Flatten(ss) == IF ss = <<>> THEN <<>> ELSE Head(ss) \o Flatten(Tail(ss))

-----------------------------------------------------------------------------
(* validateTaskOverride *)

\* Array.prototype.find on a sequence, given the outcome of the test on
\* each element: the first element that passes, undefined when none does
Find(seq, passes) ==
  IF \E i \in 1..Len(seq) : passes[i]
    THEN seq[CHOOSE i \in 1..Len(seq) : passes[i] /\ \A j \in 1..(i - 1) : ~passes[j]]
    ELSE Undef

\* apiTask.objectives?.find((o) => o.id === objId)
FindObjectiveById(apiTask, objId) ==
  LET objectives == Get(apiTask, "objectives")
  IN  IF objectives.t \in {"undefined", "null"} THEN Undef
      ELSE Find(objectives.a,
                [i \in 1..Len(objectives.a) |-> StrictEq(Get(objectives.a[i], "id"), objId)])

\* variant of FindAddedObjective: an added objective is looked up by id only
FindAddedObjective_IdOnly(apiTask, added) ==
  LET objectives == Get(apiTask, "objectives")
  IN  IF objectives.t \in {"undefined", "null"} THEN Undef
      ELSE Find(objectives.a,
                [i \in 1..Len(objectives.a) |->
                   StrictEq(Get(objectives.a[i], "id"), Get(added, "id"))])

\* apiTask.objectives?.find((o) => o.id === added.id ||
\*                                 o.description === added.description)
FindAddedObjective(apiTask, added) ==
  LET objectives == Get(apiTask, "objectives")
  IN  IF objectives.t \in {"undefined", "null"} THEN Undef
      ELSE Find(objectives.a,
                [i \in 1..Len(objectives.a) |->
                   \/ StrictEq(Get(objectives.a[i], "id"), Get(added, "id"))
                   \/ StrictEq(Get(objectives.a[i], "description"), Get(added, "description"))])

\* apiTasks.find((t) => t.id === taskId)
FindTask(tasks, id) ==
  Find(tasks, [i \in 1..Len(tasks) |-> StrictEq(Get(tasks[i], "id"), Str(id))])

\* variant of ObjectiveDetails: a patch for an objective the API does not list
\* is passed over
ObjectiveDetails_SkipMissing(objId, objOverride, apiTask) ==
  LET apiObj == FindObjectiveById(apiTask, Str(objId))
      fieldDetail(entry) ==
        IF entry[2].t = "undefined" THEN <<>>
        ELSE <<Detail("objective:" \o objId \o ":" \o entry[1],
                      IF compareSubset(entry[2], Get(apiObj, entry[1]))
                        THEN "fixed" ELSE "needed")>>
  IN  IF ~Truthy(apiObj) THEN <<>>
      ELSE Flatten([i \in 1..Len(objOverride.o) |-> fieldDetail(objOverride.o[i])])

\* the details of one entry of override.objectives
ObjectiveDetails(objId, objOverride, apiTask) ==
  LET apiObj == FindObjectiveById(apiTask, Str(objId))
      fieldDetail(entry) ==
        IF entry[2].t = "undefined" THEN <<>>
        ELSE <<Detail("objective:" \o objId \o ":" \o entry[1],
                      IF compareSubset(entry[2], Get(apiObj, entry[1]))
                        THEN "fixed" ELSE "needed")>>
  IN  IF ~Truthy(apiObj) THEN <<Detail("objective:" \o objId, "check")>>
      ELSE Flatten([i \in 1..Len(objOverride.o) |-> fieldDetail(objOverride.o[i])])

\* the detail of one entry of override.objectivesAdd
AddedObjectiveDetail(added, apiTask) ==
  LET apiMatch == FindAddedObjective(apiTask, added)
      label == StringOf(OrElse(Get(added, "id"), Get(added, "description")))
  IN  Detail("objectivesAdd:" \o label, IF Truthy(apiMatch) THEN "fixed" ELSE "needed")

ValidationResult(id, name, status, stillNeeded, details) ==
  [id |-> id, name |-> name, status |-> status, stillNeeded |-> stillNeeded,
   details |-> details]

\* the verdict for a task the API no longer lists
RemovedResult(id) ==
  ValidationResult(id, Str("Unknown"), "REMOVED_FROM_API", FALSE,
                   <<Detail("task", "info")>>)

\* variant of DisabledResult: the earlier policy, the override counts as moot
DisabledResult_Moot(id, apiTask) ==
  ValidationResult(id, Get(apiTask, "name"), "REMOVED_FROM_API", FALSE,
                   <<Detail("disabled", "info")>>)

\* the verdict for an override marked disabled whose task the API still lists
DisabledResult(id, apiTask) ==
  ValidationResult(id, Get(apiTask, "name"), "NEEDED", TRUE,
                   <<Detail("disabled", "check")>>)

\* variant of NeedsOverride: a check detail does not count
NeedsOverride_NeededOnly(details) ==
  \E i \in 1..Len(details) : details[i].status = "needed"

\* details.some((d) => d.status === 'needed' || d.status === 'check')
NeedsOverride(details) ==
  \E i \in 1..Len(details) : details[i].status \in {"needed", "check"}

\* the details collected by the field validators, the objective overrides
\* and the added objectives, in that order
CollectDetails(ov, apiTask) ==
  LET fieldDetails ==
        Flatten([i \in 1..Len(FIELD_VALIDATORS) |->
                   RunValidator(FIELD_VALIDATORS[i], ov, apiTask)])
      objectives == Get(ov, "objectives")
      objectiveDetails ==
        IF Truthy(objectives)
          THEN Flatten([i \in 1..Len(objectives.o) |->
                          ObjectiveDetails(objectives.o[i][1], objectives.o[i][2], apiTask)])
          ELSE <<>>
      objectivesAdd == Get(ov, "objectivesAdd")
      addedDetails ==
        IF Truthy(objectivesAdd)
          THEN [i \in 1..Len(objectivesAdd.a) |->
                  AddedObjectiveDetail(objectivesAdd.a[i], apiTask)]
          ELSE <<>>
  IN  fieldDetails \o objectiveDetails \o addedDetails

\* variant of validateTaskOverride: the disabled flag is looked at before the
\* lookup result
validateTaskOverride_DisabledFirst(id, ov, tasks) ==
  LET apiTask == FindTask(tasks, id)
      details == CollectDetails(ov, apiTask)
  IN  IF StrictEq(Get(ov, "disabled"), Bool(TRUE)) THEN DisabledResult(id, apiTask)
      ELSE IF ~Truthy(apiTask) THEN RemovedResult(id)
      ELSE ValidationResult(id, Get(apiTask, "name"),
                            IF NeedsOverride(details) THEN "NEEDED" ELSE "FIXED",
                            NeedsOverride(details), details)

validateTaskOverride(id, ov, tasks) ==
  LET apiTask == FindTask(tasks, id)
      details == CollectDetails(ov, apiTask)
  IN  IF ~Truthy(apiTask) THEN RemovedResult(id)
      ELSE IF StrictEq(Get(ov, "disabled"), Bool(TRUE)) THEN DisabledResult(id, apiTask)
      ELSE ValidationResult(id, Get(apiTask, "name"),
                            IF NeedsOverride(details) THEN "NEEDED" ELSE "FIXED",
                            NeedsOverride(details), details)

-----------------------------------------------------------------------------
(* Exceptions.  A TypeError is thrown by reading a property of null or     *)
(* undefined, by calling a method the receiver lacks (trim of a number,    *)
(* filter or find of a non-array) and by for...of over a value that is not *)
(* iterable.  Each predicate below tells whether the function it is named  *)
(* after throws on its arguments, site by site in the order of the code.   *)

Nullish(x) == x.t \in {"undefined", "null"}

\* for...of accepts arrays and strings among the values modelled
Iterable(x) == x.t \in {"array", "string"}

\* the values for...of runs through
Elements(x) ==
  IF x.t = "array" THEN x.a
  ELSE IF x.t = "string" THEN [i \in 1..Len(x.s) |-> Str(SubSeq(x.s, i, i))]
  ELSE <<>>

\* Object.entries(x) of a value that is not null or undefined
Entries(x) ==
  IF x.t = "object" THEN x.o
  ELSE [i \in 1..Len(Elements(x)) |-> <<ToString(i - 1), Elements(x)[i]>>]

\* map.name?.trim() with a name that is neither a string nor null or undefined
canonicalMapKeyThrows(map) ==
  Truthy(map) /\ ~Nullish(Get(map, "name")) /\ Get(map, "name").t # "string"

\* variant of collectObjectiveMapKeysThrows: objective.maps is iterated
\* without the ?? [] default
collectObjectiveMapKeysThrows_NoDefault(objectives) ==
  \E i \in 1..Len(objectives) :
    \/ Nullish(objectives[i])
    \/ LET maps == Get(objectives[i], "maps")
       IN  \/ ~Iterable(maps)
           \/ \E j \in 1..Len(Elements(maps)) : canonicalMapKeyThrows(Elements(maps)[j])

\* objective.maps of a null objective, for...of over maps that are not
\* iterable, canonicalMapKey of a map
collectObjectiveMapKeysThrows(objectives) ==
  \E i \in 1..Len(objectives) :
    \/ Nullish(objectives[i])
    \/ LET maps == Coalesce(Get(objectives[i], "maps"), Arr(<<>>))
       IN  \/ ~Iterable(maps)
           \/ \E j \in 1..Len(Elements(maps)) : canonicalMapKeyThrows(Elements(maps)[j])

hasMultipleObjectiveMapsThrows(ov, apiTask) ==
  LET apiObjectives == Coalesce(Get(apiTask, "objectives"), Arr(<<>>))
      overrideObjectives == Coalesce(Get(ov, "objectives"), Obj(<<>>))
  IN  \/ ~Iterable(apiObjectives)
      \/ collectObjectiveMapKeysThrows(Elements(apiObjectives))
      \/ collectObjectiveMapKeysThrows(
            [i \in 1..Len(Entries(overrideObjectives)) |-> Entries(overrideObjectives)[i][2]])

\* the filter callback on one requirement: r.status of a null requirement,
\* some() of a status that is not an array, trim() of a status entry that is
\* not a string and is reached before an active or accepted one
requirementFilterThrows(r) ==
  \/ Nullish(r)
  \/ LET statuses == Coalesce(Get(r, "status"), Arr(<<>>))
     IN  \/ ~IsArray(statuses)
         \/ \E i \in 1..Len(statuses.a) :
              /\ statuses.a[i].t # "string"
              /\ \A j \in 1..(i - 1) :
                   /\ statuses.a[j].t = "string"
                   /\ toLowerCase(trim(statuses.a[j].s)) \notin {"active", "accepted"}

validateTaskRequirementsThrows(ov, apiTask) ==
  LET overrideReqs == Get(ov, "taskRequirements")
      listed == OrElse(Get(apiTask, "taskRequirements"), Arr(<<>>))
      apiReqs == SelectSeq(listed.a, LAMBDA r : ~IsActiveRequirement(r))
  IN  /\ overrideReqs.t # "undefined"
      /\ \/ ~IsArray(listed)
         \/ \E i \in 1..Len(listed.a) : requirementFilterThrows(listed.a[i])
         \/ IF Len(apiReqs) = 0 THEN Nullish(overrideReqs)
            ELSE \/ ~IsArray(overrideReqs)
                 \/ \E i \in 1..Len(overrideReqs.a) : Nullish(overrideReqs.a[i])

\* Array.prototype.find whose callback reads a property of the element: an
\* element that is null or undefined is reached before any element passes
FindThrows(seq, passes) ==
  \E i \in 1..Len(seq) : Nullish(seq[i]) /\ \A j \in 1..(i - 1) : ~passes[j]

\* apiTask.objectives?.find(...) for an objective patch or an added objective
findObjectiveThrows(apiTask, passes) ==
  LET objectives == Get(apiTask, "objectives")
  IN  /\ ~Nullish(objectives)
      /\ \/ ~IsArray(objectives)
         \/ FindThrows(objectives.a, passes)

\* the loop over Object.entries(override.objectives)
objectivesLoopThrows(ov, apiTask) ==
  LET objectives == Get(ov, "objectives")
      apiObjectives == Elements(Get(apiTask, "objectives"))
  IN  /\ Truthy(objectives)
      /\ \E e \in 1..Len(Entries(objectives)) :
           LET objId == Entries(objectives)[e][1]
               objOverride == Entries(objectives)[e][2]
               passes == [i \in 1..Len(apiObjectives) |->
                            StrictEq(Get(apiObjectives[i], "id"), Str(objId))]
           IN  \/ findObjectiveThrows(apiTask, passes)
               \/ (\E i \in 1..Len(apiObjectives) : passes[i]) /\ Nullish(objOverride)

\* the loop over override.objectivesAdd
objectivesAddLoopThrows(ov, apiTask) ==
  LET objectivesAdd == Get(ov, "objectivesAdd")
      apiObjectives == Elements(Get(apiTask, "objectives"))
  IN  /\ Truthy(objectivesAdd)
      /\ \/ ~Iterable(objectivesAdd)
         \/ \E e \in 1..Len(Elements(objectivesAdd)) :
              LET added == Elements(objectivesAdd)[e]
                  passes == [i \in 1..Len(apiObjectives) |->
                               \/ StrictEq(Get(apiObjectives[i], "id"), Get(added, "id"))
                               \/ StrictEq(Get(apiObjectives[i], "description"),
                                           Get(added, "description"))]
              IN  \/ Nullish(added)
                  \/ findObjectiveThrows(apiTask, passes)

validateTaskOverrideThrows(id, ov, tasks) ==
  LET passes == [i \in 1..Len(tasks) |-> StrictEq(Get(tasks[i], "id"), Str(id))]
      apiTask == FindTask(tasks, id)
  IN  \/ FindThrows(tasks, passes)
      \/ /\ Truthy(apiTask)
         /\ \/ Nullish(ov)
            \/ /\ ~StrictEq(Get(ov, "disabled"), Bool(TRUE))
               /\ \/ hasMultipleObjectiveMapsThrows(ov, apiTask)
                  \/ validateTaskRequirementsThrows(ov, apiTask)
                  \/ objectivesLoopThrows(ov, apiTask)
                  \/ objectivesAddLoopThrows(ov, apiTask)

\* variant of validateAllOverrides: the details array is shared by the
\* verdicts of the batch, so every verdict lists the details of all entries
validateAllOverrides_SharedDetails(ovs, tasks) ==
  LET each == [i \in 1..Len(ovs.o) |-> validateTaskOverride(ovs.o[i][1], ovs.o[i][2], tasks)]
      all == Flatten([i \in 1..Len(each) |-> each[i].details])
  IN  [i \in 1..Len(each) |-> [each[i] EXCEPT !.details = all]]

\* Object.entries(overrides).map(([taskId, override]) => validateTaskOverride(...))
validateAllOverrides(ovs, tasks) ==
  [i \in 1..Len(ovs.o) |-> validateTaskOverride(ovs.o[i][1], ovs.o[i][2], tasks)]

categorizeResults(rs) ==
  [stillNeeded |-> SelectSeq(rs, LAMBDA r : r.stillNeeded),
   fixed |-> SelectSeq(rs, LAMBDA r : r.status = "FIXED"),
   removedFromApi |-> SelectSeq(rs, LAMBDA r : r.status = "REMOVED_FROM_API")]

-----------------------------------------------------------------------------
(* Inputs of the validator run *)

\* patches declare at most this many of the plain top-level fields
MaxDeclared == 2

\* an objective of the API lists at most this many maps
MaxMaps == 2

RECURSIVE SubsetsUpTo(_, _)
\* the subsets of S with at most k elements
SubsetsUpTo(S, k) ==
  IF k = 0 THEN {{}}
  ELSE LET smaller == SubsetsUpTo(S, k - 1)
       IN  smaller \cup {p \cup {x} : p \in smaller, x \in S}

RECURSIVE SeqsUpTo(_, _)
\* the sequences over S of length at most k
SeqsUpTo(S, k) ==
  IF k = 0 THEN {<<>>}
  ELSE LET shorter == SeqsUpTo(S, k - 1)
       IN  shorter \cup {Append(q, x) : q \in shorter, x \in S}

\* the elements of seq at the indices of I, in the order of seq
Pick(seq, I) ==
  LET F[i \in 0..Len(seq)] ==
        IF i = 0 THEN <<>>
        ELSE IF i \in I THEN Append(F[i - 1], seq[i]) ELSE F[i - 1]
  IN  F[Len(seq)]

MapRef(id, name) == Obj(<< <<"id", Str(id)>>, <<"name", Str(name)>> >>)

Factory == MapRef("factory", "Factory")
Customs == MapRef("customs", "Customs")
GroundZero == MapRef("gz", "Ground Zero")

\* map references as they occur in objectives: base maps, their variants in
\* several spellings, a reference without a name, one with a blank name, null
MapRefs ==
  { Factory, Customs, GroundZero,
    MapRef("night-factory", "Night Factory"),
    MapRef("night-factory", "  NIGHT factory "),
    MapRef("gz-21", "Ground Zero 21+"),
    MapRef("gz-21", "ground ZERO 21+ "),
    Obj(<< <<"id", Str("Customs")>> >>),
    MapRef("Factory", "  "),
    Null }

Item(id, name) == Obj(<< <<"id", Str(id)>>, <<"name", Str(name)>> >>)

Requirement(id) == Obj(<< <<"task", Obj(<< <<"id", Str(id)>>, <<"name", Str("Task " \o id)>> >>)>> >>)

RequirementWithStatus(id, status) ==
  Obj(<< <<"task", Obj(<< <<"id", Str(id)>>, <<"name", Str("Task " \o id)>> >>)>>,
         <<"status", Arr(<<Str(status)>>)>> >>)

ApiObjective1 ==
  Obj(<< <<"id", Str("obj-1")>>, <<"count", Num(5)>>,
         <<"description", Str("Find item")>>,
         <<"maps", Arr(<<Customs>>)>> >>)

\* the plain fields of the task the API lists under id t1
ApiPlainFields ==
  << <<"id", Str("t1")>>,
     <<"name", Str("Test Task")>>,
     <<"minPlayerLevel", Num(10)>>,
     <<"wikiLink", Str("https://wiki/test")>>,
     <<"kappaRequired", Bool(FALSE)>>,
     <<"lightkeeperRequired", Bool(FALSE)>>,
     <<"factionName", Str("Any")>>,
     <<"experience", Num(100)>>,
     <<"traderRequirements",
       Arr(<<Obj(<< <<"trader", Item("tr1", "Prapor")>>, <<"value", Num(1)>> >>)>>)>>,
     <<"finishRewards",
       Obj(<< <<"items", Arr(<<Obj(<< <<"item", Item("i1", "Roubles")>>,
                                     <<"count", Num(1)>> >>)>>)>>,
              <<"traderUnlock", Item("tr2", "Jaeger")>> >>)>> >>

ApiTask(extra) == Obj(ApiPlainFields \o extra)

OtherApiTask == Obj(<< <<"id", Str("t2")>>, <<"name", Str("Other Task")>> >>)

\* the plain top-level fields a patch may declare, each with a value that
\* agrees with the API task and values that do not
PatchEntries ==
  << <<"minPlayerLevel", Num(10)>>,
     <<"minPlayerLevel", Num(20)>>,
     <<"name", Str("Test Task")>>,
     <<"name", Str("Renamed Task")>>,
     <<"wikiLink", Str("https://wiki/other")>>,
     <<"kappaRequired", Bool(TRUE)>>,
     <<"kappaRequired", Bool(FALSE)>>,
     <<"lightkeeperRequired", Bool(TRUE)>>,
     <<"factionName", Str("Any")>>,
     <<"experience", Num(200)>>,
     <<"traderRequirements",
       Arr(<<Obj(<< <<"trader", Item("tr1", "Prapor")>>, <<"value", Num(2)>> >>)>>)>>,
     <<"startRewards", Obj(<< <<"items", Arr(<<>>)>> >>)>>,
     <<"finishRewards", Obj(<< <<"traderUnlock", Obj(<< <<"name", Str("Jaeger")>> >>)>> >>)>>,
     <<"finishRewards",
       Obj(<< <<"items", Arr(<<Obj(<< <<"item", Obj(<< <<"name", Str("Roubles")>> >>)>>,
                                     <<"count", Num(1)>> >>)>>)>> >>)>>,
     <<"requiredPrestige", Obj(<< <<"name", Str("Prestige 1")>>, <<"prestigeLevel", Num(1)>> >>)>> >>

\* selections of entries that declare no field twice
PlainPatches ==
  {Pick(PatchEntries, I) :
     I \in {J \in SubsetsUpTo(1..Len(PatchEntries), MaxDeclared) :
              \A i, j \in J : i # j => PatchEntries[i][1] # PatchEntries[j][1]}}

DisabledOptions ==
  {<<>>, << <<"disabled", Bool(TRUE)>> >>, << <<"disabled", Bool(FALSE)>> >>}

ObjectivePatch(objId, fields) == << <<"objectives", Obj(<< <<objId, Obj(fields)>> >>)>> >>

Input(id, ov, tasks) == [id |-> id, ov |-> ov, tasks |-> tasks]

\* plain fields, the disabled flag, a patch for an objective the API lacks,
\* against a task the API lists or no longer lists
FieldInputs ==
  {Input(id, Obj(plain \o disabled \o objectives),
         <<OtherApiTask, ApiTask(<< <<"objectives", Arr(<<ApiObjective1>>)>> >>)>>) :
     id \in {"t1", "gone"},
     plain \in PlainPatches,
     disabled \in DisabledOptions,
     objectives \in {<<>>, ObjectivePatch("obj-9", << <<"count", Num(1)>> >>)}}

MapOptions == {<<>>, << <<"map", Null>> >>, << <<"map", Factory>> >>, << <<"map", Customs>> >>}

\* top-level maps and objective maps of the patch and of the API task
MapInputs ==
  {Input("t1", Obj(patchMap \o objectives),
         <<ApiTask(apiMap \o << <<"objectives",
             Arr(<<Obj(<< <<"id", Str("obj-1")>>, <<"maps", Arr(apiMaps)>> >>)>>)>> >>)>>) :
     patchMap \in MapOptions,
     apiMap \in MapOptions,
     apiMaps \in SeqsUpTo(MapRefs, MaxMaps),
     objectives \in {<<>>,
                     ObjectivePatch("obj-1", << <<"maps", Arr(<<Customs>>)>> >>),
                     ObjectivePatch("obj-1", << <<"maps",
                        Arr(<<MapRef("night-factory", "Night Factory")>>)>> >>)}}

\* objective patches, added objectives and task requirements
ObjectiveInputs ==
  {Input("t1", Obj(objectives \o added \o reqs),
         <<ApiTask(<< <<"objectives", Arr(<<ApiObjective1>>)>> >> \o apiReqs)>>) :
     objectives \in {<<>>,
                     ObjectivePatch("obj-1", << <<"count", Num(5)>> >>),
                     ObjectivePatch("obj-1", << <<"count", Num(4)>>, <<"optional", Bool(TRUE)>> >>)},
     added \in {<<>>,
                << <<"objectivesAdd", Arr(<<Obj(<< <<"id", Str("obj-1")>>,
                                                   <<"description", Str("Other")>> >>)>>)>> >>,
                << <<"objectivesAdd", Arr(<<Obj(<< <<"id", Str("new-1")>>,
                                                   <<"description", Str("Find item")>> >>)>>)>> >>,
                << <<"objectivesAdd", Arr(<<Obj(<< <<"id", Str("new-2")>>,
                                                   <<"description", Str("Mark car")>> >>)>>)>> >>},
     reqs \in {<<>>,
               << <<"taskRequirements", Arr(<<>>)>> >>,
               << <<"taskRequirements", Arr(<<Requirement("a")>>)>> >>,
               << <<"taskRequirements", Arr(<<Requirement("b"), Requirement("a")>>)>> >>},
     apiReqs \in {<<>>,
                  << <<"taskRequirements", Arr(<<>>)>> >>,
                  << <<"taskRequirements", Arr(<<Requirement("a")>>)>> >>,
                  << <<"taskRequirements", Arr(<<Requirement("a"), Requirement("b")>>)>> >>,
                  << <<"taskRequirements",
                       Arr(<<RequirementWithStatus("a", " Active ")>>)>> >>}}

\* a requirement list of the API or of a patch holds at most this many entries
MaxReqs == 2

RequirementWithStatuses(id, statuses) ==
  Obj(<< <<"task", Obj(<< <<"id", Str(id)>>, <<"name", Str("Task " \o id)>> >>)>>,
         <<"status", Arr(statuses)>> >>)

\* requirements as the API lists them: without status, with an empty status
\* list, with statuses that count as active in several spellings, and with
\* statuses that do not
ApiRequirements ==
  { Requirement("a"), Requirement("b"),
    RequirementWithStatuses("b", <<>>),
    RequirementWithStatus("a", " Active "),
    RequirementWithStatus("b", "ACCEPTED"),
    RequirementWithStatus("a", "complete"),
    RequirementWithStatus("b", "inactive"),
    RequirementWithStatuses("a", <<Str("failed"), Str("accepted")>>) }

\* requirement lists of the patch and of the API task
RequirementInputs ==
  {Input("t1", Obj(<< <<"taskRequirements", Arr(reqs)>> >>),
         <<ApiTask(<< <<"taskRequirements", Arr(apiReqs)>> >>)>>) :
     reqs \in SeqsUpTo({Requirement("a"), Requirement("b")}, MaxReqs),
     apiReqs \in SeqsUpTo(ApiRequirements, MaxReqs)}

\* a patch holds at most this many objective patches
MaxObjectives == 2

ApiObjective2 ==
  Obj(<< <<"id", Str("obj-2")>>, <<"count", Num(4)>>,
         <<"description", Str("Mark car")>>, <<"optional", Bool(TRUE)>> >>)

\* the sub-fields an objective patch may declare: none, a count, several
\* fields, nested values, a field set to undefined
ObjectiveFieldLists ==
  { <<>>,
    << <<"count", Num(5)>> >>,
    << <<"count", Num(4)>>, <<"optional", Bool(TRUE)>> >>,
    << <<"description", Str("Find item")>>, <<"maps", Arr(<<Customs>>)>> >>,
    << <<"count", Undef>>, <<"foundInRaid", Bool(FALSE)>> >> }

\* objective patches under distinct ids, at most k of them
ObjectivePatchLists(k) ==
  {q \in SeqsUpTo({<<objId, Obj(fields)>> :
                      objId \in {"obj-1", "obj-2", "obj-9"}, fields \in ObjectiveFieldLists}, k) :
     \A i, j \in 1..Len(q) : i # j => q[i][1] # q[j][1]}

\* patches of several objectives against tasks that list all, some or none
\* of them, with or without a plain field that agrees with the API
ObjectivePatchInputs ==
  {Input("t1", Obj(plain \o << <<"objectives", Obj(patches)>> >>),
         <<ApiTask(apiObjectives)>>) :
     plain \in {<<>>, << <<"name", Str("Test Task")>> >>},
     patches \in ObjectivePatchLists(MaxObjectives),
     apiObjectives \in {<<>>,
                        << <<"objectives", Arr(<<>>)>> >>,
                        << <<"objectives", Arr(<<ApiObjective1>>)>> >>,
                        << <<"objectives", Arr(<<ApiObjective2, ApiObjective1>>)>> >>}}

\* a patch adds at most this many objectives
MaxAdded == 2

\* an objective the API lists without a description
ApiObjective3 == Obj(<< <<"id", Str("obj-3")>>, <<"count", Num(1)>> >>)

AddedObjective(id, description) ==
  Obj(<< <<"id", Str(id)>>, <<"description", Str(description)>> >>)

\* added objectives: one the API lists under its id, ones it lists under
\* their description, ones it lacks, one that differs in case only, one
\* with an empty id, one with an empty description
AddedObjectives ==
  { AddedObjective("obj-1", "Other"),
    AddedObjective("new-1", "Find item"),
    AddedObjective("new-2", "Mark car"),
    AddedObjective("new-3", "find item"),
    AddedObjective("", "Find item "),
    AddedObjective("obj-3", "") }

\* lists of added objectives against tasks with and without objectives
AddedInputs ==
  {Input("t1", Obj(<< <<"objectivesAdd", Arr(added)>> >>), <<ApiTask(apiObjectives)>>) :
     added \in SeqsUpTo(AddedObjectives, MaxAdded),
     apiObjectives \in {<<>>,
                        << <<"objectives", Arr(<<>>)>> >>,
                        << <<"objectives", Arr(<<ApiObjective1>>)>> >>,
                        << <<"objectives", Arr(<<ApiObjective3, ApiObjective1>>)>> >>}}

\* canonical records with fields missing or null and with empty lists
SparseApiTasks ==
  { Obj(<< <<"id", Str("t1")>>, <<"name", Str("Test Task")>> >>),
    Obj(<< <<"id", Str("t1")>>, <<"name", Str("Test Task")>>,
           <<"minPlayerLevel", Null>>, <<"wikiLink", Null>>, <<"map", Null>>,
           <<"experience", Null>>, <<"startRewards", Null>>, <<"finishRewards", Null>>,
           <<"factionName", Null>>, <<"requiredPrestige", Null>>,
           <<"taskRequirements", Null>>, <<"objectives", Null>> >>),
    Obj(<< <<"id", Str("t1")>>, <<"name", Str("Test Task")>>,
           <<"taskRequirements", Arr(<<>>)>>, <<"objectives", Arr(<<>>)>> >>),
    Obj(<< <<"id", Str("t1")>>, <<"name", Str("Test Task")>>,
           <<"taskRequirements",
             Arr(<<Obj(<< <<"task", Null>>, <<"status", Null>> >>),
                   Obj(<< <<"task", Obj(<< <<"id", Null>>, <<"name", Null>> >>)>> >>)>>)>>,
           <<"objectives",
             Arr(<<Obj(<< <<"id", Str("obj-1")>>, <<"description", Null>>, <<"maps", Null>> >>),
                   Obj(<< <<"id", Str("obj-2")>>,
                          <<"maps", Arr(<<Obj(<< <<"id", Null>>, <<"name", Null>> >>),
                                          Customs>>)>> >>)>>)>> >>) }

\* patches that declare lists, mappings and maps, empty ones included
SparsePatches ==
  { Obj(<<>>),
    Obj(<< <<"taskRequirements", Arr(<<>>)>>, <<"objectives", Obj(<<>>)>>,
           <<"objectivesAdd", Arr(<<>>)>>, <<"map", Null>> >>),
    Obj(<< <<"taskRequirements", Arr(<<Requirement("a")>>)>> >>),
    Obj(<< <<"objectives", Obj(<< <<"obj-1", Obj(<<>>)>>,
                                  <<"obj-9", Obj(<< <<"maps", Arr(<<>>)>> >>)>> >>)>> >>),
    Obj(<< <<"objectivesAdd", Arr(<<AddedObjective("new-1", "Find item")>>)>> >>),
    Obj(<< <<"map", Factory>>, <<"minPlayerLevel", Num(10)>>,
           <<"finishRewards", Obj(<< <<"items", Arr(<<>>)>> >>)>>,
           <<"taskRequirements", Arr(<<RequirementWithStatus("a", "complete")>>)>>,
           <<"objectives", Obj(<< <<"obj-2", Obj(<< <<"description", Str("Mark car")>>,
                                                    <<"maps", Arr(<<Factory>>)>> >>)>> >>)>>,
           <<"objectivesAdd", Arr(<<AddedObjective("obj-1", "Other")>>)>> >>) }

\* well-formed patches against sparse canonical sets, the empty set included
SparseInputs ==
  {Input(id, ov, tasks) :
     id \in {"t1", "gone"},
     ov \in SparsePatches,
     tasks \in {<<>>} \cup {<<task>> : task \in SparseApiTasks}
                \cup {<<OtherApiTask, task>> : task \in SparseApiTasks}}

\* inputs outside the declared shapes: a null where a list, a record or a
\* string is declared, a number where a string is declared
MalformedInputs ==
  {Input("t1", ov, <<task>>) :
     ov \in { Obj(<< <<"taskRequirements", Null>> >>),
              Obj(<< <<"taskRequirements", Null>>, <<"disabled", Bool(TRUE)>> >>),
              Obj(<< <<"objectives", Obj(<< <<"obj-1", Null>> >>)>> >>),
              Obj(<< <<"objectivesAdd", Arr(<<Null>>)>> >>),
              Obj(<< <<"name", Num(5)>> >>) },
     task \in { ApiTask(<<>>),
                ApiTask(<< <<"taskRequirements", Arr(<<Requirement("a")>>)>>,
                           <<"objectives", Arr(<<ApiObjective1>>)>> >>) }}
    \cup
  {Input("t1", ov, tasks) :
     ov \in { Obj(<<>>), Obj(<< <<"taskRequirements", Arr(<<Requirement("a")>>)>> >>) },
     tasks \in { <<Null, ApiTask(<<>>)>>,
                 <<ApiTask(<<>>), Null>>,
                 <<ApiTask(<< <<"objectives", Arr(<<Null>>)>> >>)>>,
                 <<ApiTask(<< <<"objectives",
                      Arr(<<Obj(<< <<"id", Str("obj-1")>>,
                                   <<"maps", Arr(<<Obj(<< <<"id", Str("m")>>,
                                                          <<"name", Num(5)>> >>)>>)>> >>)>>)>> >>)>>,
                 <<ApiTask(<< <<"taskRequirements",
                      Arr(<<Obj(<< <<"task", Obj(<< <<"id", Str("a")>> >>)>>,
                                   <<"status", Arr(<<Null>>)>> >>)>>)>> >>)>>,
                 <<ApiTask(<< <<"taskRequirements", Arr(<<Null>>)>> >>)>> }}

ValidatorInputs ==
  FieldInputs \cup MapInputs \cup ObjectiveInputs \cup RequirementInputs
    \cup ObjectivePatchInputs \cup AddedInputs \cup SparseInputs \cup MalformedInputs

-----------------------------------------------------------------------------
(* Inputs of the comparator run *)

\* arrays of the comparator inputs hold at most this many elements
MaxArrLen == 2

Prims == {Undef, Null, Num(1), Num(2), Str("1")}

Entry(k, x) == <<k, x>>

\* objects over the keys x and y, in both insertion orders
ObjectsOver(S) ==
  {Obj(<<>>)}
    \cup {Obj(<<Entry(k, x)>>) : k \in {"x", "y"}, x \in S}
    \cup {Obj(<<Entry("x", x), Entry("y", y)>>) : x \in S, y \in S}
    \cup {Obj(<<Entry("y", y), Entry("x", x)>>) : x \in S, y \in S}

ArraysOver(S) == {Arr(q) : q \in SeqsUpTo(S, MaxArrLen)}

\* composite values that occur inside other composites
Inner ==
  { Arr(<<Num(1), Num(2)>>), Arr(<<Num(2), Num(1)>>),
    Obj(<<Entry("x", Num(1))>>),
    Obj(<<Entry("x", Num(1)), Entry("y", Num(2))>>) }

\* the same mapping written in two key orders
KeyOrders ==
  { Obj(<<Entry("a", Num(1)), Entry("b", Num(2))>>),
    Obj(<<Entry("b", Num(2)), Entry("a", Num(1))>>) }

CmpValues ==
  Prims \cup ArraysOver(Prims) \cup ObjectsOver(Prims) \cup ArraysOver(Inner)
    \cup {Obj(<<Entry("x", x)>>) : x \in Inner} \cup KeyOrders

-----------------------------------------------------------------------------
(* The validator run: validateTaskOverride applied to one patch *)

NoResult == ValidationResult("", Undef, "NONE", FALSE, <<>>)

Categories(stillNeeded, fixed, removedFromApi) ==
  [stillNeeded |-> stillNeeded, fixed |-> fixed, removedFromApi |-> removedFromApi]

\* the batch run has not started
BatchIdle ==
  /\ overrides = Obj(<<>>)
  /\ results = <<>>
  /\ categorized = Categories(<<>>, <<>>, <<>>)

\* no section has been created
SectionIdle ==
  /\ section = Undef
  /\ pushed = <<>>

\* mergeTaskOverrides has not been called
MergeIdle ==
  /\ shared = Obj(<<>>)
  /\ modeSpecific = Obj(<<>>)
  /\ merged = Undef

\* responses of the model, and what they are before their request arrives
Clients == {1, 2}

NoConn ==
  [phase |-> "new", view |-> "", mode |-> "", key |-> "", query |-> Null,
   destroyed |-> FALSE, writableEnded |-> FALSE, closed |-> FALSE,
   keepAlive |-> FALSE, listening |-> FALSE, frames |-> <<>>, since |-> 0,
   cleanups |-> 0]
\* (query: the query string of the request; since: the number of rebuilds
\* before the request; cleanups: how often cleanup() took effect)

\* no /events request has arrived and no summary has been rebuilt
EventsIdle ==
  /\ clientsByKey = <<>>
  /\ summaryByKey = <<>>
  /\ conns = [c \in Clients |-> NoConn]

\* nothing is loaded and buildSummary has not been called
SummaryIdle ==
  /\ overlayState = [data |-> Null, updatedAt |-> Null, error |-> Null]
  /\ apiState = [regular |-> [data |-> Null, updatedAt |-> Null, error |-> Null],
                 pve |-> [data |-> Null, updatedAt |-> Null, error |-> Null]]
  /\ summaryArgs = Undef
  /\ summaryOut = Undef
  /\ taskSections = Undef

\* the sources of the monitor, each with its lock in readLocks
Sources == {"overlay", "apiRegular", "apiPve"}

\* no refresh has been requested
RefreshIdle ==
  /\ readLocks = [s \in Sources |-> [isReading |-> FALSE, pendingRead |-> FALSE]]
  /\ loads = [s \in Sources |-> 0]
  /\ refreshLog = [asked |-> [s \in Sources |-> 0], begun |-> [s \in Sources |-> 0],
                   ended |-> [s \in Sources |-> 0], covered |-> [s \in Sources |-> 0],
                   during |-> [s \in Sources |-> 0], last |-> Undef]
\* (asked: refreshes requested; begun, ended: loads begun and settled;
\* covered: the requests made when the latest load began; during: the
\* requests made since the latest load began; last: the source and the
\* outcome of the load settled last and the state of the source before it)

\* the dashboard page is not loaded
DashboardIdle == dashboard = Undef

\* the validator and the comparator do not run
CoreIdle ==
  /\ taskId = ""
  /\ override = Obj(<<>>)
  /\ apiTasks = <<>>
  /\ result = NoResult
  /\ pc = "idle"
  /\ cmpA = Undef
  /\ cmpB = Undef
  /\ cmpOp = "idle"
  /\ cmpOut = FALSE

\* nothing of the monitor server or of the dashboard runs
MonitorIdle == MergeIdle /\ EventsIdle /\ SummaryIdle /\ RefreshIdle /\ DashboardIdle

Init ==
  /\ \E input \in ValidatorInputs :
       /\ taskId = input.id
       /\ override = input.ov
       /\ apiTasks = input.tasks
  /\ result = NoResult
  /\ pc = "start"
  /\ cmpA = Undef
  /\ cmpB = Undef
  /\ cmpOp = "idle"
  /\ cmpOut = FALSE
  /\ BatchIdle
  /\ SectionIdle
  /\ MonitorIdle

Validate ==
  /\ pc = "start"
  /\ IF validateTaskOverrideThrows(taskId, override, apiTasks)
       THEN /\ result' = NoResult
            /\ pc' = "thrown"
       ELSE /\ result' = validateTaskOverride(taskId, override, apiTasks)
            /\ pc' = "done"
  /\ UNCHANGED <<taskId, override, apiTasks, cmpA, cmpB, cmpOp, cmpOut>>
  /\ UNCHANGED <<batchVars, sectionVars>>
  /\ UNCHANGED monitorVars

Next == Validate

Spec == Init /\ [][Next]_vars

-----------------------------------------------------------------------------
(* The comparator run: valuesEqual or compareSubset applied to two values *)

InitCmp ==
  /\ cmpA \in CmpValues
  /\ cmpB \in CmpValues
  /\ cmpOp = "none"
  /\ cmpOut = FALSE
  /\ taskId = ""
  /\ override = Obj(<<>>)
  /\ apiTasks = <<>>
  /\ result = NoResult
  /\ pc = "idle"
  /\ BatchIdle
  /\ SectionIdle
  /\ MonitorIdle

CallValuesEqual ==
  /\ cmpOp = "none"
  /\ cmpOp' = "valuesEqual"
  /\ cmpOut' = valuesEqual(cmpA, cmpB)
  /\ UNCHANGED <<cmpA, cmpB, taskId, override, apiTasks, result, pc>>
  /\ UNCHANGED <<batchVars, sectionVars>>
  /\ UNCHANGED monitorVars

CallCompareSubset ==
  /\ cmpOp = "none"
  /\ cmpOp' = "compareSubset"
  /\ cmpOut' = compareSubset(cmpA, cmpB)
  /\ UNCHANGED <<cmpA, cmpB, taskId, override, apiTasks, result, pc>>
  /\ UNCHANGED <<batchVars, sectionVars>>
  /\ UNCHANGED monitorVars

NextCmp == CallValuesEqual \/ CallCompareSubset

SpecCmp == InitCmp /\ [][NextCmp]_vars

-----------------------------------------------------------------------------
(* The batch run: validateAllOverrides over a mapping of patches, then      *)
(* categorizeResults; categorizeResults is also applied to verdict lists   *)
(* built by its caller                                                     *)

\* a batch holds at most this many patches
MaxBatch == 2

\* a verdict list handed to categorizeResults holds at most this many verdicts
MaxVerdicts == 2

BatchPatches ==
  { Obj(<<>>),
    Obj(<< <<"name", Str("Test Task")>> >>),
    Obj(<< <<"minPlayerLevel", Num(20)>>, <<"name", Str("Test Task")>> >>),
    Obj(<< <<"disabled", Bool(TRUE)>> >>),
    Obj(<< <<"taskRequirements", Arr(<<Requirement("b"), Requirement("a")>>)>> >>) }

\* mappings from distinct task ids to patches, in insertion order
BatchOverrides ==
  {Obj(q) : q \in {q \in SeqsUpTo({<<id, ov>> : id \in {"t1", "t2", "gone"}, ov \in BatchPatches},
                                   MaxBatch) :
                     \A i, j \in 1..Len(q) : i # j => q[i][1] # q[j][1]}}

BatchApiTasks ==
  { <<ApiTask(<< <<"taskRequirements", Arr(<<Requirement("b"), Requirement("a")>>)>> >>)>>,
    <<OtherApiTask, ApiTask(<< <<"objectives", Arr(<<ApiObjective1>>)>> >>)>> }

ValidationStatus == {"NEEDED", "FIXED", "NOT_FOUND", "REMOVED_FROM_API"}

\* verdicts of the declared shape, as a caller of categorizeResults may build
\* them: any declared status, stillNeeded set for NEEDED only
Verdicts ==
  {ValidationResult(id, Str("Task " \o id), status, status = "NEEDED", <<>>) :
     id \in {"1", "2", "3"}, status \in ValidationStatus}

InitBatch ==
  /\ \/ /\ overrides \in BatchOverrides
        /\ apiTasks \in BatchApiTasks
        /\ results = <<>>
        /\ pc = "start"
     \/ /\ overrides = Undef
        /\ apiTasks = <<>>
        /\ results \in SeqsUpTo(Verdicts, MaxVerdicts)
        /\ pc = "given"
  /\ categorized = Categories(<<>>, <<>>, <<>>)
  /\ taskId = ""
  /\ override = Obj(<<>>)
  /\ result = NoResult
  /\ cmpA = Undef
  /\ cmpB = Undef
  /\ cmpOp = "idle"
  /\ cmpOut = FALSE
  /\ SectionIdle
  /\ MonitorIdle

ValidateAll ==
  /\ pc = "start"
  /\ results' = validateAllOverrides(overrides, apiTasks)
  /\ pc' = "validated"
  /\ UNCHANGED <<overrides, apiTasks, categorized>>
  /\ UNCHANGED <<taskId, override, result, cmpA, cmpB, cmpOp, cmpOut, sectionVars>>
  /\ UNCHANGED monitorVars

Categorize ==
  /\ pc \in {"validated", "given"}
  /\ categorized' = categorizeResults(results)
  /\ pc' = "categorized"
  /\ UNCHANGED <<overrides, apiTasks, results>>
  /\ UNCHANGED <<taskId, override, result, cmpA, cmpB, cmpOp, cmpOut, sectionVars>>
  /\ UNCHANGED monitorVars

NextBatch == ValidateAll \/ Categorize

SpecBatch == InitBatch /\ [][NextBatch]_vars

-----------------------------------------------------------------------------
(* The monitor's sections: createSection makes a table, pushRow adds rows  *)
(* to it up to MAX_ROWS                                                    *)

MAX_ROWS == 250

\* obj[k] = v: replaces the value of k, or adds k behind the other keys
Assign(obj, k, v) ==
  IF HasKey(obj, k)
    THEN Obj([i \in 1..Len(obj.o) |-> IF obj.o[i][1] = k THEN <<k, v>> ELSE obj.o[i]])
    ELSE Obj(Append(obj.o, <<k, v>>))

RECURSIVE AssignAll(_, _)
\* { ...obj, ...extra }: the entries of extra assigned in their order
AssignAll(obj, entries) ==
  IF entries = <<>> THEN obj
  ELSE AssignAll(Assign(obj, Head(entries)[1], Head(entries)[2]), Tail(entries))

createSection(title, columns, options) ==
  AssignAll(Obj(<< <<"title", title>>, <<"columns", columns>>,
                   <<"rows", Arr(<<>>)>>, <<"truncated", Bool(FALSE)>> >>),
            options.o)

\* variant of pushRow: the limit is tested with > in place of >=
pushRow_OneMore(sec, row) ==
  IF Len(Get(sec, "rows").a) > MAX_ROWS
    THEN Assign(sec, "truncated", Bool(TRUE))
    ELSE Assign(sec, "rows", Arr(Append(Get(sec, "rows").a, row)))

\* the section after pushRow(section, row)
pushRow(sec, row) ==
  IF Len(Get(sec, "rows").a) >= MAX_ROWS
    THEN Assign(sec, "truncated", Bool(TRUE))
    ELSE Assign(sec, "rows", Arr(Append(Get(sec, "rows").a, row)))

\* pushRow is called at most this many times on a section
MaxPushes == 252

\* the options the callers of createSection pass: none, or the status column
SectionOptions == {Obj(<<>>), Obj(<< <<"statusColumnIndex", Num(4)>> >>)}

\* titles and column lists: the table of disabled tasks and a one-column table
SectionHeads ==
  { [title |-> Str("Disabled Tasks"), columns |-> Arr(<<Str("Task"), Str("Task ID")>>)],
    [title |-> Str("S"), columns |-> Arr(<<Str("A")>>)] }

\* the k-th row handed to pushRow, counted from 0
RowOf(k) == Arr(<<Str("v" \o ToString(k))>>)

InitRows ==
  /\ SectionIdle
  /\ MonitorIdle
  /\ BatchIdle
  /\ taskId = ""
  /\ override = Obj(<<>>)
  /\ apiTasks = <<>>
  /\ result = NoResult
  /\ pc = "idle"
  /\ cmpA = Undef
  /\ cmpB = Undef
  /\ cmpOp = "idle"
  /\ cmpOut = FALSE

CreateSection ==
  /\ section = Undef
  /\ \E head \in SectionHeads, options \in SectionOptions :
       section' = createSection(head.title, head.columns, options)
  /\ pushed' = <<>>
  /\ UNCHANGED <<taskId, override, apiTasks, result, pc, cmpA, cmpB, cmpOp, cmpOut>>
  /\ UNCHANGED batchVars
  /\ UNCHANGED monitorVars

PushRow ==
  /\ section # Undef
  /\ Len(pushed) < MaxPushes
  /\ section' = pushRow(section, RowOf(Len(pushed)))
  /\ pushed' = Append(pushed, RowOf(Len(pushed)))
  /\ UNCHANGED <<taskId, override, apiTasks, result, pc, cmpA, cmpB, cmpOp, cmpOut>>
  /\ UNCHANGED batchVars
  /\ UNCHANGED monitorVars

NextRows == CreateSection \/ PushRow

SpecRows == InitRows /\ [][NextRows]_vars

-----------------------------------------------------------------------------
(* The monitor's task patches: mergeTaskOverrides lays the patches of one  *)
(* game mode over the shared patches                                       *)

\* { ...a, ...b } of two values; spreading undefined or null adds nothing
Spread(a, b) ==
  AssignAll(AssignAll(Obj(<<>>), IF IsObject(a) THEN a.o ELSE <<>>),
            IF IsObject(b) THEN b.o ELSE <<>>)

\* variant of mergeTaskOverride: one spread, objectives and objectivesAdd of
\* the patch of the mode replace those of the shared patch
mergeTaskOverride_Shallow(baseArg, nextArg) ==
  LET base == IF baseArg = Undef THEN Obj(<<>>) ELSE baseArg
      next == IF nextArg = Undef THEN Obj(<<>>) ELSE nextArg
  IN  Spread(base, next)

mergeTaskOverride(baseArg, nextArg) ==
  LET base == IF baseArg = Undef THEN Obj(<<>>) ELSE baseArg
      next == IF nextArg = Undef THEN Obj(<<>>) ELSE nextArg
      spread == Spread(base, next)
      withObjectives ==
        IF Truthy(Get(base, "objectives")) \/ Truthy(Get(next, "objectives"))
          THEN Assign(spread, "objectives",
                      Spread(OrElse(Get(base, "objectives"), Obj(<<>>)),
                             OrElse(Get(next, "objectives"), Obj(<<>>))))
          ELSE spread
  IN  IF Truthy(Get(base, "objectivesAdd")) \/ Truthy(Get(next, "objectivesAdd"))
        THEN Assign(withObjectives, "objectivesAdd",
                    Arr(OrElse(Get(base, "objectivesAdd"), Arr(<<>>)).a
                          \o OrElse(Get(next, "objectivesAdd"), Arr(<<>>)).a))
        ELSE withObjectives

RECURSIVE MergeEntries(_, _)
\* the loop of mergeTaskOverrides over Object.entries(modeSpecific)
MergeEntries(acc, entries) ==
  IF entries = <<>> THEN acc
  ELSE MergeEntries(
         Assign(acc, Head(entries)[1],
                mergeTaskOverride(Get(acc, Head(entries)[1]), Head(entries)[2])),
         Tail(entries))

mergeTaskOverrides(sharedArg, modeArg) ==
  LET sharedTasks == IF sharedArg = Undef THEN Obj(<<>>) ELSE sharedArg
      modeTasks == IF modeArg = Undef THEN Obj(<<>>) ELSE modeArg
  IN  MergeEntries(Spread(sharedTasks, Obj(<<>>)), modeTasks.o)

\* patches of one task: a name, a mapping of objective patches and a list of
\* added objectives, each present or not
MergeNames == {Undef, Str("A"), Str("B")}

MergeObjectives ==
  { Undef, Obj(<<>>),
    Obj(<< <<"o1", Obj(<< <<"count", Num(1)>> >>)>> >>),
    Obj(<< <<"o1", Obj(<< <<"optional", Bool(TRUE)>> >>)>> >>),
    Obj(<< <<"o2", Obj(<< <<"count", Num(2)>> >>)>> >>),
    Obj(<< <<"o2", Obj(<< <<"count", Num(2)>> >>)>>,
           <<"o1", Obj(<< <<"count", Num(3)>> >>)>> >>) }

MergeAdded ==
  { Undef, Arr(<<>>),
    Arr(<<Obj(<< <<"id", Str("a")>> >>)>>),
    Arr(<<Obj(<< <<"id", Str("b")>> >>)>>) }

\* the entries whose value is present
PresentEntries(entries) == SelectSeq(entries, LAMBDA e : e[2] # Undef)

MergePatches ==
  { Obj(PresentEntries(<< <<"name", n>>, <<"objectives", o>>, <<"objectivesAdd", a>> >>)) :
      n \in MergeNames, o \in MergeObjectives, a \in MergeAdded }

\* the patch of a second task
OtherPatch == Obj(<< <<"minPlayerLevel", Num(2)>> >>)

MergeShared ==
  {Obj(<<>>)}
    \cup {Obj(<< <<"t", ov>> >>) : ov \in MergePatches}
    \cup {Obj(<< <<"t", ov>>, <<"u", OtherPatch>> >>) : ov \in MergePatches}

MergeModeSpecific ==
  {Obj(<<>>), Obj(<< <<"u", OtherPatch>> >>)}
    \cup {Obj(<< <<"t", ov>> >>) : ov \in MergePatches}

InitMerge ==
  /\ shared \in MergeShared
  /\ modeSpecific \in MergeModeSpecific
  /\ merged = Undef
  /\ EventsIdle
  /\ SummaryIdle
  /\ SectionIdle
  /\ BatchIdle
  /\ CoreIdle
  /\ RefreshIdle
  /\ DashboardIdle

MergeTaskOverrides ==
  /\ merged = Undef
  /\ merged' = mergeTaskOverrides(shared, modeSpecific)
  /\ UNCHANGED <<shared, modeSpecific>>
  /\ UNCHANGED notMerge

NextMerge == MergeTaskOverrides

SpecMerge == InitMerge /\ [][NextMerge]_vars

-----------------------------------------------------------------------------
(* The monitor's event streams: GET /events subscribes a response under    *)
(* the key of its view and mode, rebuildSummaries broadcasts to the        *)
(* subscribers of every key, a timer writes keep-alive frames               *)

DEFAULT_VIEW == "tasks"
DEFAULT_MODE == "regular"

\* the own keys of VIEW_CONFIG, in declaration order
ViewNames ==
  <<"tasks", "tasksAdd", "items", "hideout", "traders", "editions",
    "storyChapters", "itemsAdd">>

ViewTitles ==
  <<"Task Overrides", "Task Additions", "Item Overrides", "Hideout Overrides",
    "Trader Overrides", "Editions", "Story Chapters", "Item Additions">>

IsViewName(view) == \E i \in 1..Len(ViewNames) : ViewNames[i] = view

\* names every object inherits from Object.prototype
ObjectPrototypeKeys ==
  {"constructor", "toString", "valueOf", "hasOwnProperty", "__proto__"}

\* VIEW_CONFIG[view]: the entry of the view, a member inherited from
\* Object.prototype (truthy, without title or requiresMode), or undefined
VIEW_CONFIG(view) ==
  IF view.t = "string" /\ IsViewName(view.s)
    THEN LET i == CHOOSE j \in 1..Len(ViewNames) : ViewNames[j] = view.s
         IN  Obj(<< <<"title", Str(ViewTitles[i])>>,
                    <<"requiresMode", Bool(view.s \in {"tasks", "tasksAdd"})>> >>)
  ELSE IF view.t = "string" /\ view.s \in ObjectPrototypeKeys
    THEN Obj(<<>>)
  ELSE Undef

getSummaryKey(view, mode) == view \o ":" \o mode

normalizeView(view) ==
  IF Truthy(view) /\ Truthy(VIEW_CONFIG(view)) THEN view.s ELSE DEFAULT_VIEW

normalizeMode(mode) ==
  IF mode = Str("pve") \/ mode = Str("regular") THEN mode.s ELSE DEFAULT_MODE

\* config?.requiresMode ? mode : ""
ModeFor(view, mode) ==
  IF Truthy(OptGet(VIEW_CONFIG(Str(view)), "requiresMode")) THEN mode ELSE ""

\* the summary stored under a key: the number of the rebuild that stored it,
\* 0 standing for the summary served before the first rebuild
SummaryOf(summaries, key) == IF key \in DOMAIN summaries THEN summaries[key] ELSE 0

\* getState(view, mode), by the fields that tell two states apart
getState(summaries, view, mode) ==
  LET requiresMode == Truthy(OptGet(VIEW_CONFIG(Str(view)), "requiresMode"))
  IN  [view |-> view,
       mode |-> IF requiresMode THEN Str(mode) ELSE Null,
       summary |-> SummaryOf(summaries, getSummaryKey(view, IF requiresMode THEN mode ELSE ""))]

SummaryFrame(state) == [event |-> "summary", data |-> state]

KeepAliveFrame == [event |-> "keep-alive", data |-> Null]

\* the keys rebuildSummaries stores and broadcasts, in its order
RebuildKeys ==
  <<"tasks:regular", "tasks:pve", "tasksAdd:regular", "tasksAdd:pve", "items:",
    "hideout:", "traders:", "editions:", "storyChapters:", "itemsAdd:">>

\* clientsByKey.get(key) || new Set()
ClientsOf(clients, key) == IF key \in DOMAIN clients THEN clients[key] ELSE {}

\* clientsByKey after clientsByKey.set(key, set)
SetClients(clients, key, set) ==
  [k \in DOMAIN clients \cup {key} |-> IF k = key THEN set ELSE clients[k]]

removeClient(clients, key, client) ==
  IF key \in DOMAIN clients
    THEN [clients EXCEPT ![key] = @ \ {client}]
    ELSE clients

\* variant of Writable: only a destroyed response is refused
Writable_DestroyedOnly(conn) == ~conn.destroyed

\* writeSse refuses a response that is destroyed or ended
Writable(conn) == ~(conn.destroyed \/ conn.writableEnded)

\* rebuildSummaries runs at most this many times
MaxRebuilds == 1

\* a timer writes at most this many keep-alive frames to one response
MaxKeepAlives == 1

\* query strings of GET /events: view, type and mode, null when absent
Query(view, type, mode) == [view |-> view, type |-> type, mode |-> mode]

EventQueries ==
  { Query(Str("tasks"), Null, Str("pve")),
    Query(Str("items"), Null, Str("pve")),
    Query(Str("nope"), Null, Str("x")),
    Query(Null, Str("editions"), Null),
    Query(Str("constructor"), Null, Null) }

\* cleanup() of the request handler
Cleanup(conn) ==
  IF conn.closed THEN conn
  ELSE [conn EXCEPT !.closed = TRUE, !.keepAlive = FALSE, !.listening = FALSE,
                    !.cleanups = @ + 1]

\* the handler of GET /events, to its return
EventsRequest(c) ==
  /\ conns[c].phase = "new"
  /\ \E q \in EventQueries :
       LET view == normalizeView(OrElse(q.view, q.type))
           mode == normalizeMode(q.mode)
           key == getSummaryKey(view, ModeFor(view, mode))
           subscribed == SetClients(clientsByKey, key, ClientsOf(clientsByKey, key) \cup {c})
           conn == [conns[c] EXCEPT !.phase = "open", !.query = q, !.view = view,
                                    !.mode = mode, !.key = key, !.listening = TRUE,
                                    !.since = SummaryOf(summaryByKey, RebuildKeys[1])]
           frame == SummaryFrame(getState(summaryByKey, view, ModeFor(view, mode)))
       IN  IF Writable(conn)
             THEN /\ clientsByKey' = subscribed
                  /\ conns' = [conns EXCEPT ![c] =
                       [conn EXCEPT !.frames = Append(@, frame), !.keepAlive = TRUE]]
             ELSE /\ clientsByKey' = removeClient(subscribed, key, c)
                  /\ conns' = [conns EXCEPT ![c] = Cleanup(conn)]
  /\ UNCHANGED summaryByKey
  /\ UNCHANGED notEvents

\* broadcast(key, "summary", state) to the subscribers of every rebuilt key
RebuildSummaries ==
  /\ SummaryOf(summaryByKey, RebuildKeys[1]) < MaxRebuilds
  /\ LET rebuilt == [k \in {RebuildKeys[i] : i \in 1..Len(RebuildKeys)} |->
                       SummaryOf(summaryByKey, k) + 1]
         reached(c) == /\ conns[c].key \in DOMAIN rebuilt
                       /\ c \in ClientsOf(clientsByKey, conns[c].key)
     IN  /\ summaryByKey' = rebuilt
         /\ conns' = [c \in Clients |->
              IF reached(c) /\ Writable(conns[c])
                THEN [conns[c] EXCEPT !.frames = Append(@,
                        SummaryFrame(getState(rebuilt, conns[c].view,
                                              ModeFor(conns[c].view, conns[c].mode))))]
                ELSE conns[c]]
         /\ clientsByKey' = [k \in DOMAIN clientsByKey |->
              IF k \in DOMAIN rebuilt
                THEN {c \in clientsByKey[k] : Writable(conns[c])}
                ELSE clientsByKey[k]]
  /\ UNCHANGED notEvents

\* the keep-alive timer of a response fires
KeepAliveTick(c) ==
  /\ conns[c].keepAlive
  /\ Len(SelectSeq(conns[c].frames, LAMBDA f : f.event = "keep-alive")) < MaxKeepAlives
  /\ IF Writable(conns[c])
       THEN /\ conns' = [conns EXCEPT ![c].frames = Append(@, KeepAliveFrame)]
            /\ UNCHANGED clientsByKey
       ELSE /\ conns' = [conns EXCEPT ![c] = Cleanup(@)]
            /\ clientsByKey' = removeClient(clientsByKey, conns[c].key, c)
  /\ UNCHANGED summaryByKey
  /\ UNCHANGED notEvents

\* the connection of a response goes away: the response is destroyed, or it
\* is ended, before or after its request is handled
Disconnect(c) ==
  /\ Writable(conns[c])
  /\ \/ conns' = [conns EXCEPT ![c].destroyed = TRUE]
     \/ conns' = [conns EXCEPT ![c].writableEnded = TRUE]
  /\ UNCHANGED <<clientsByKey, summaryByKey>>
  /\ UNCHANGED notEvents

\* a close, finish or error event of the request or the response reaches
\* the listener the handler attached, which is cleanup
CloseEvent(c) ==
  /\ conns[c].listening
  /\ ~Writable(conns[c])
  /\ conns' = [conns EXCEPT ![c] = Cleanup(@)]
  /\ clientsByKey' = IF conns[c].closed THEN clientsByKey
                     ELSE removeClient(clientsByKey, conns[c].key, c)
  /\ UNCHANGED summaryByKey
  /\ UNCHANGED notEvents

InitEvents ==
  /\ EventsIdle
  /\ SummaryIdle
  /\ MergeIdle
  /\ SectionIdle
  /\ BatchIdle
  /\ CoreIdle
  /\ RefreshIdle
  /\ DashboardIdle

NextEvents ==
  \/ \E c \in Clients : EventsRequest(c)
  \/ RebuildSummaries
  \/ \E c \in Clients : KeepAliveTick(c)
  \/ \E c \in Clients : Disconnect(c)
  \/ \E c \in Clients : CloseEvent(c)

SpecEvents == InitEvents /\ [][NextEvents]_vars

-----------------------------------------------------------------------------
(* The monitor's summaries: one builder of sections per view, and          *)
(* buildSummary choosing the builder for a view                            *)

FormatMaxLength == 220

\* stands for the one-character ellipsis the code appends
Ellipsis == "~"

\* formatValue(value) of the monitor, maxLength at its default
formatValue(value) ==
  IF value.t = "undefined" THEN "undefined"
  ELSE IF value.t = "null" THEN "null"
  ELSE IF value.t = "string" THEN value.s
  ELSE IF Len(JsonText(value)) <= FormatMaxLength THEN JsonText(value)
  ELSE SubSeq(JsonText(value), 1, FormatMaxLength - 1) \o Ellipsis

RECURSIVE PushRows(_, _)
\* pushRow(section, row) for each row of a list, in order
PushRows(sec, rows) ==
  IF rows = <<>> THEN sec
  ELSE PushRows(pushRow(sec, Head(rows)), Tail(rows))

Strings(names) == Arr([i \in 1..Len(names) |-> Str(names[i])])

\* !value || typeof value !== "object"
NotAnObject(value) == ~Truthy(value) \/ ~TypeofObject(value)

\* the rows buildOverrideSections pushes for one entity
OverrideRows(entityId, ov) ==
  IF NotAnObject(ov)
    THEN <<Arr(<<Str(entityId), Str("value"), Str(formatValue(ov))>>)>>
  ELSE IF Len(Entries(ov)) = 0
    THEN <<Arr(<<Str(entityId), Str("(empty)"), Str("{}")>>)>>
  ELSE [i \in 1..Len(Entries(ov)) |->
          Arr(<<Str(entityId), Str(Entries(ov)[i][1]),
                Str(formatValue(Entries(ov)[i][2]))>>)]

buildOverrideSections(title, overrideMap) ==
  <<PushRows(createSection(Str(title \o " Overrides"),
                           Strings(<<"Entity", "Field", "Overlay">>), Obj(<<>>)),
             Flatten([i \in 1..Len(Entries(overrideMap)) |->
                        OverrideRows(Entries(overrideMap)[i][1], Entries(overrideMap)[i][2])]))>>

\* Array.isArray(value) ? value.length : 0
LengthIfArray(value) == IF IsArray(value) THEN Len(value.a) ELSE 0

\* count || "-"
CountOrDash(n) == IF n # 0 THEN Num(n) ELSE Str("-")

EditionRow(key, edition) ==
  IF NotAnObject(edition)
    THEN Arr(<<Str(key), Str(key), Str("-"), Str("-"), Str("-"), Str("-")>>)
  ELSE LET repCount == IF Truthy(Get(edition, "traderRepBonus"))
                         THEN Len(Entries(Get(edition, "traderRepBonus"))) ELSE 0
       IN  Arr(<<OrElse(Get(edition, "title"), Str(key)),
                 OrElse(Get(edition, "id"), Str(key)),
                 Coalesce(Get(edition, "defaultStashLevel"), Str("-")),
                 IF repCount # 0 THEN Str(ToString(repCount) \o " traders") ELSE Str("-"),
                 CountOrDash(LengthIfArray(Get(edition, "exclusiveTaskIds"))),
                 CountOrDash(LengthIfArray(Get(edition, "excludedTaskIds")))>>)

buildEditionsSections(editions) ==
  <<PushRows(createSection(Str("Editions"),
                           Strings(<<"Edition", "ID", "Stash", "Rep Bonus",
                                     "Exclusive Tasks", "Excluded Tasks">>), Obj(<<>>)),
             [i \in 1..Len(Entries(editions)) |->
                EditionRow(Entries(editions)[i][1], Entries(editions)[i][2])])>>

ChapterRow(key, chapter) ==
  IF NotAnObject(chapter)
    THEN Arr(<<Str(key), Str(key), Str("-"), Str("-"), Str("-")>>)
  ELSE Arr(<<OrElse(Get(chapter, "name"), Str(key)),
             OrElse(Get(chapter, "id"), Str(key)),
             Coalesce(Get(chapter, "order"), Str("-")),
             Num(LengthIfArray(Get(chapter, "objectives"))),
             OrElse(Get(chapter, "wikiLink"), Str("-"))>>)

buildStoryChapterSections(chapters) ==
  <<PushRows(createSection(Str("Story Chapters"),
                           Strings(<<"Chapter", "ID", "Order", "Objectives", "Wiki">>),
                           Obj(<<>>)),
             [i \in 1..Len(Entries(chapters)) |->
                ChapterRow(Entries(chapters)[i][1], Entries(chapters)[i][2])])>>

AdditionRow(id, addition) ==
  IF NotAnObject(addition)
    THEN Arr(<<Str(id), Str(id), Str("-"), Str("-"), Str("-")>>)
  ELSE Arr(<<OrElse(Get(addition, "name"), Str(id)),
             OrElse(Get(addition, "id"), Str(id)),
             OrElse(OptGet(Get(addition, "trader"), "name"), Str("-")),
             OrElse(OptGet(Get(addition, "map"), "name"), Str("-")),
             OrElse(Get(addition, "wikiLink"), Str("-"))>>)

buildTaskAdditionSections(tasksAdd, mode) ==
  <<PushRows(createSection(Str("Task Additions (" \o mode \o ")"),
                           Strings(<<"Task", "ID", "Trader", "Map", "Wiki">>), Obj(<<>>)),
             [i \in 1..Len(Entries(tasksAdd)) |->
                AdditionRow(Entries(tasksAdd)[i][1], Entries(tasksAdd)[i][2])])>>

\* new Map(apiTasks.map((task) => [task.id, task])).get(taskId): of the
\* tasks with that id the last one, undefined when there is none
ApiById(tasks, id) ==
  LET hits == {i \in 1..Len(tasks) : Get(tasks[i], "id") = Str(id)}
  IN  IF hits = {} THEN Undef
      ELSE tasks[CHOOSE i \in hits : \A j \in hits : j <= i]

\* apiTask.objectives?.find((objective) => objective.id === objectiveId)
FindApiObjective(apiTask, objectiveId) ==
  LET objectives == Get(apiTask, "objectives")
      hits == IF IsArray(objectives)
                THEN {i \in 1..Len(objectives.a) : Get(objectives.a[i], "id") = Str(objectiveId)}
                ELSE {}
  IN  IF hits = {} THEN Undef
      ELSE objectives.a[CHOOSE i \in hits : \A j \in hits : i <= j]

\* valuesEqual(apiValue, value) ? "same" : "override"
DiffStatus(apiValue, value) ==
  IF valuesEqual(apiValue, value) THEN "same" ELSE "override"

\* a row of the section Task Overrides vs API
DiffRow(taskName, field, apiValue, value) ==
  Arr(<<taskName, Str(field), Str(formatValue(apiValue)), Str(formatValue(value)),
        Str(DiffStatus(apiValue, value))>>)

\* the entries of a record whose value is not undefined
DefinedEntries(value) == SelectSeq(Entries(value), LAMBDA e : e[2] # Undef)

\* the rows pushed for the top-level fields of a patch
TopLevelRows(taskName, ov, apiTask) ==
  LET topLevel == SelectSeq(DefinedEntries(ov),
                            LAMBDA e : e[1] \notin {"objectives", "objectivesAdd"})
  IN  [i \in 1..Len(topLevel) |->
         DiffRow(taskName, topLevel[i][1], Get(apiTask, topLevel[i][1]), topLevel[i][2])]

\* the rows pushed for the patch of one objective
ObjectiveRows(taskName, objectiveId, objOverride, apiTask) ==
  LET apiObjective == FindApiObjective(apiTask, objectiveId)
      fields == DefinedEntries(objOverride)
  IN  IF NotAnObject(objOverride) THEN <<>>
      ELSE IF ~Truthy(apiObjective)
        THEN <<Arr(<<taskName, Str("objective:" \o objectiveId), Str("missing"),
                     Str(formatValue(objOverride)), Str("missing")>>)>>
      ELSE [i \in 1..Len(fields) |->
              DiffRow(taskName, "objective:" \o objectiveId \o "." \o fields[i][1],
                      Get(apiObjective, fields[i][1]), fields[i][2])]

\* the rows pushed for the added objectives of a patch
AddedRows(taskName, objectivesAdd) ==
  IF ~IsArray(objectivesAdd) THEN <<>>
  ELSE [i \in 1..Len(objectivesAdd.a) |->
          Arr(<<taskName,
                OrElse(Get(objectivesAdd.a[i], "description"),
                       OrElse(Get(objectivesAdd.a[i], "id"), Str("Added objective"))),
                Str(formatValue(objectivesAdd.a[i]))>>)]

NoRows == [diff |-> <<>>, added |-> <<>>, missing |-> <<>>, disabled |-> <<>>]

\* the rows one pass of the loop of buildTasksSections pushes, by section
TaskRows(id, ov, tasks) ==
  LET apiTask == ApiById(tasks, id)
      taskName == OrElse(OptGet(apiTask, "name"),
                         OrElse(Get(ov, "name"), Str("Task ID " \o id)))
      objectives == Get(ov, "objectives")
  IN  IF NotAnObject(ov) THEN NoRows
      ELSE IF ~Truthy(apiTask)
        THEN [NoRows EXCEPT !.missing = <<Arr(<<taskName, Str(id)>>)>>]
      ELSE [diff |->
              TopLevelRows(taskName, ov, apiTask)
                \o (IF Truthy(objectives) /\ TypeofObject(objectives)
                      THEN Flatten([i \in 1..Len(Entries(objectives)) |->
                             ObjectiveRows(taskName, Entries(objectives)[i][1],
                                           Entries(objectives)[i][2], apiTask)])
                      ELSE <<>>),
            added |-> AddedRows(taskName, Get(ov, "objectivesAdd")),
            missing |-> <<>>,
            disabled |-> IF Get(ov, "disabled") = Bool(TRUE)
                           THEN <<Arr(<<taskName, Str(id)>>)>> ELSE <<>>]

buildTasksSections(overrideMap, tasks, mode) ==
  LET rows == [i \in 1..Len(Entries(overrideMap)) |->
                 TaskRows(Entries(overrideMap)[i][1], Entries(overrideMap)[i][2], tasks)]
  IN  << PushRows(createSection(Str("Task Overrides vs API"),
                                Strings(<<"Task", "Field", "API", "Overlay", "Status">>),
                                Obj(<< <<"statusColumnIndex", Num(4)>> >>)),
                  Flatten([i \in 1..Len(rows) |-> rows[i].diff])),
         PushRows(createSection(Str("Added Objectives"),
                                Strings(<<"Task", "Objective", "Overlay">>), Obj(<<>>)),
                  Flatten([i \in 1..Len(rows) |-> rows[i].added])),
         PushRows(createSection(Str("Tasks Missing From API"),
                                Strings(<<"Task", "Task ID">>), Obj(<<>>)),
                  Flatten([i \in 1..Len(rows) |-> rows[i].missing])),
         PushRows(createSection(Str("Disabled Tasks"),
                                Strings(<<"Task", "Task ID">>), Obj(<<>>)),
                  Flatten([i \in 1..Len(rows) |-> rows[i].disabled])) >>

\* a source of the monitor: the data last loaded, when, and the last error
SourceState(data, updatedAt, error) == [data |-> data, updatedAt |-> updatedAt, error |-> error]

\* apiState[mode]?.data || [] and apiState[mode]?.error
ApiTasksOf(api, mode) ==
  IF mode \in DOMAIN api /\ IsArray(api[mode].data) THEN api[mode].data.a ELSE <<>>

ApiErrorOf(api, mode) == IF mode \in DOMAIN api THEN api[mode].error ELSE Undef

\* overlay.modes?.[mode]?.tasks and the like
ModePart(overlay, mode, part) == OptGet(OptGet(Get(overlay, "modes"), mode), part)

Summary(sections, error) == [sections |-> sections, error |-> error]

\* variant of buildSummary's first test: no test for a missing overlay
OverlayMissing_Never(overlay) == FALSE

\* !overlay
OverlayMissing(overlay) == ~Truthy(overlay)

buildSummary(view, mode, ovState, api) ==
  LET overlay == ovState.data
      overlayError == OrElse(ovState.error, Null)
  IN  IF OverlayMissing(overlay)
        THEN Summary(<<>>, OrElse(ovState.error, Str("Overlay data not loaded")))
      ELSE IF view = "tasks"
        THEN Summary(
               buildTasksSections(
                 mergeTaskOverrides(OrElse(Get(overlay, "tasks"), Obj(<<>>)),
                                    OrElse(ModePart(overlay, mode, "tasks"), Obj(<<>>))),
                 ApiTasksOf(api, mode), mode),
               OrElse(ovState.error, OrElse(ApiErrorOf(api, mode), Null)))
      ELSE IF view = "tasksAdd"
        THEN Summary(
               buildTaskAdditionSections(
                 Spread(OrElse(Get(overlay, "tasksAdd"), Obj(<<>>)),
                        OrElse(ModePart(overlay, mode, "tasksAdd"), Obj(<<>>))),
                 mode),
               overlayError)
      ELSE IF view = "items"
        THEN Summary(buildOverrideSections("Items", OrElse(Get(overlay, "items"), Obj(<<>>))),
                     overlayError)
      ELSE IF view = "hideout"
        THEN Summary(buildOverrideSections("Hideout", OrElse(Get(overlay, "hideout"), Obj(<<>>))),
                     overlayError)
      ELSE IF view = "traders"
        THEN Summary(buildOverrideSections("Traders", OrElse(Get(overlay, "traders"), Obj(<<>>))),
                     overlayError)
      ELSE IF view = "editions"
        THEN Summary(buildEditionsSections(OrElse(Get(overlay, "editions"), Obj(<<>>))),
                     overlayError)
      ELSE IF view = "storyChapters"
        THEN Summary(buildStoryChapterSections(OrElse(Get(overlay, "storyChapters"), Obj(<<>>))),
                     overlayError)
      ELSE IF view = "itemsAdd"
        THEN Summary(buildOverrideSections("Items Additions",
                                           OrElse(Get(overlay, "itemsAdd"), Obj(<<>>))),
                     overlayError)
      ELSE Summary(<<>>, Str("Unknown view"))

\* overlays as loadOverlay parses them
FullOverlay ==
  Obj(<< <<"tasks", Obj(<< <<"t1", Obj(<< <<"minPlayerLevel", Num(45)>> >>)>> >>)>>,
         <<"items", Obj(<< <<"i1", Obj(<< <<"name", Str("Item")>> >>)>> >>)>>,
         <<"hideout", Obj(<<>>)>>,
         <<"traders", Obj(<< <<"tr1", Null>> >>)>>,
         <<"editions", Obj(<< <<"standard", Obj(<< <<"title", Str("Standard")>>,
                                                   <<"exclusiveTaskIds", Arr(<<Str("t1")>>)>> >>)>> >>)>>,
         <<"storyChapters", Obj(<< <<"c1", Obj(<< <<"name", Str("Tour")>>, <<"order", Num(0)>> >>)>> >>)>>,
         <<"itemsAdd", Obj(<< <<"i2", Obj(<<>>)>> >>)>>,
         <<"tasksAdd", Obj(<< <<"t9", Obj(<< <<"name", Str("New")>> >>)>> >>)>>,
         <<"modes", Obj(<< <<"pve", Obj(<< <<"tasks", Obj(<< <<"t1",
                              Obj(<< <<"minPlayerLevel", Num(10)>> >>)>> >>)>> >>)>> >>)>> >>)

OverlayDatas == {Null, Obj(<<>>), Obj(<< <<"tasks", Obj(<< <<"t2", Obj(<<>>)>> >>)>> >>), FullOverlay}

OverlayStates ==
  { SourceState(data, IF data = Null THEN Null ELSE Str("2026-01-01T00:00:00.000Z"), error) :
      data \in OverlayDatas, error \in {Null, Str("Unexpected end of JSON input")} }

ApiTask1 ==
  Obj(<< <<"id", Str("t1")>>, <<"name", Str("T")>>, <<"minPlayerLevel", Num(10)>>,
         <<"objectives", Arr(<<>>)>> >>)

ApiSourceStates ==
  { SourceState(data, IF data = Null THEN Null ELSE Str("2026-01-01T00:00:00.000Z"), error) :
      data \in {Null, Arr(<<>>), Arr(<<ApiTask1>>)},
      error \in {Null, Str("API request failed: 503 Service Unavailable")} }

ApiStates ==
  { [regular |-> r, pve |-> p] :
      r \in ApiSourceStates,
      p \in {SourceState(Null, Null, Null),
             SourceState(Arr(<<>>), Str("2026-01-01T00:00:00.000Z"), Null)} }

\* view names handed to buildSummary: the views and two other names
SummaryViews == {ViewNames[i] : i \in 1..Len(ViewNames)} \cup {"nope", "constructor"}

SummaryModes == {"regular", "pve", ""}

InitSummary ==
  /\ overlayState \in OverlayStates
  /\ apiState \in ApiStates
  /\ summaryArgs = Undef
  /\ summaryOut = Undef
  /\ taskSections = Undef
  /\ EventsIdle
  /\ MergeIdle
  /\ SectionIdle
  /\ BatchIdle
  /\ CoreIdle
  /\ RefreshIdle
  /\ DashboardIdle

BuildSummary ==
  /\ summaryArgs = Undef
  /\ \E view \in SummaryViews, mode \in SummaryModes :
       /\ summaryArgs' = [view |-> view, mode |-> mode]
       /\ summaryOut' = buildSummary(view, mode, overlayState, apiState)
  /\ UNCHANGED <<overlayState, apiState>>
  /\ UNCHANGED notSummary

NextSummary == BuildSummary

SpecSummary == InitSummary /\ [][NextSummary]_vars

-----------------------------------------------------------------------------
(* Vocabulary of the properties *)

Done == pc = "done"

\* some canonical record carries the id looked up
Present == \E i \in 1..Len(apiTasks) : Get(apiTasks[i], "id") = Str(taskId)

\* the canonical record of the id looked up
TheTask == apiTasks[CHOOSE i \in 1..Len(apiTasks) : Get(apiTasks[i], "id") = Str(taskId)]

Disabled == Get(override, "disabled") = Bool(TRUE)

Declares(field) == HasKey(override, field) /\ Get(override, field) # Undef

\* the indices of the details reported for a field
DetailsOf(field) == {i \in 1..Len(result.details) : result.details[i].field = field}

StatusesOf(field) == {result.details[i].status : i \in DetailsOf(field)}

AllStatuses == {result.details[i].status : i \in 1..Len(result.details)}

-----------------------------------------------------------------------------
(* Properties of the verdict *)

\* C1: a task id that matches no canonical record yields REMOVED_FROM_API
\* with stillNeeded = false and the single info detail, whatever the patch
\* holds (a disabled flag included); no field detail is produced.
C1_AbsentIsRemoved ==
  (Done /\ ~Present) =>
    /\ result.status = "REMOVED_FROM_API"
    /\ result.stillNeeded = FALSE
    /\ result.details = <<Detail("task", "info")>>

C1_Witness ==
  /\ Done /\ ~Present /\ Disabled
  /\ Declares("minPlayerLevel")
  /\ result.status = "REMOVED_FROM_API"

\* C2: for a listed task whose patch is not disabled the status is NEEDED
\* exactly when some detail is needed or check, FIXED otherwise (also with
\* no detail at all), and stillNeeded is true exactly when it is NEEDED.
C2_VerdictAggregation ==
  (Done /\ Present /\ ~Disabled) =>
    /\ result.status = "NEEDED" <=> (AllStatuses \cap {"needed", "check"} # {})
    /\ result.status \in {"NEEDED", "FIXED"}
    /\ result.stillNeeded <=> result.status = "NEEDED"

C2_Witness ==
  /\ Done /\ Present /\ ~Disabled
  /\ "check" \in AllStatuses /\ "needed" \notin AllStatuses /\ "fixed" \in AllStatuses
  /\ result.status = "NEEDED"

\* the top-level fields that the field walk does not compare one by one
SpecialFields == {"objectives", "objectivesAdd", "disabled", "map", "taskRequirements"}

\* C3: for a listed task whose patch is not disabled, every declared
\* top-level field outside SpecialFields (kappaRequired, lightkeeperRequired
\* and traderRequirements among them) has exactly one detail, fixed when
\* compareSubset(patch value, canonical value) holds and needed otherwise.
C3_OneDetailPerDeclaredField ==
  (Done /\ Present /\ ~Disabled) =>
    \A i \in 1..Len(override.o) :
      LET field == override.o[i][1]
      IN  (field \notin SpecialFields /\ Declares(field)) =>
            /\ Cardinality(DetailsOf(field)) = 1
            /\ StatusesOf(field) =
                 {IF compareSubset(Get(override, field), Get(TheTask, field))
                    THEN "fixed" ELSE "needed"}

-----------------------------------------------------------------------------
(* Properties of the comparator *)

KeySet(obj) == {obj.o[i][1] : i \in 1..Len(obj.o)}

RECURSIVE SubsetReference(_, _)
\* the subset rule as stated: vacuous for undefined, valuesEqual for
\* primitives, arrays and null, key by key over the keys of p for a mapping
SubsetReference(p, c) ==
  CASE p.t = "undefined" -> TRUE
    [] p.t \in {"null", "number", "string", "boolean", "array"} -> valuesEqual(p, c)
    [] OTHER -> /\ c.t = "object"
                /\ \A k \in KeySet(p) : SubsetReference(Get(p, k), Get(c, k))

\* C5: compareSubset agrees with the stated subset rule on all values; a key
\* of c that p lacks never changes the result; compareSubset({x:1},
\* {x:1,y:2}) is true and compareSubset({x:1,y:2}, {x:1}) is false.
C5_CompareSubsetReference ==
  (cmpOp = "compareSubset") =>
    /\ cmpOut = SubsetReference(cmpA, cmpB)
    /\ (IsObject(cmpA) /\ IsObject(cmpB)) =>
         \A x \in Prims \cup Inner :
           compareSubset(cmpA, Obj(Append(cmpB.o, Entry("z", x)))) = cmpOut
    /\ (cmpA = Obj(<<Entry("x", Num(1))>>)
          /\ cmpB = Obj(<<Entry("x", Num(1)), Entry("y", Num(2))>>)) => cmpOut
    /\ (cmpA = Obj(<<Entry("x", Num(1)), Entry("y", Num(2))>>)
          /\ cmpB = Obj(<<Entry("x", Num(1))>>)) => ~cmpOut

C5_Witness ==
  /\ cmpOp = "compareSubset"
  /\ cmpA = Obj(<<Entry("x", Obj(<<Entry("x", Num(1))>>))>>)
  /\ cmpB = Obj(<<Entry("x", Obj(<<Entry("x", Num(1)), Entry("y", Num(2))>>))>>)
  /\ cmpOut
  /\ ~valuesEqual(cmpA, cmpB)

RECURSIVE IsReordering(_, _)
\* b is a with mapping keys reordered and array elements permuted, at any depth
IsReordering(a, b) ==
  /\ a.t = b.t
  /\ CASE a.t = "array" ->
            /\ Len(a.a) = Len(b.a)
            /\ \E f \in Permutations(1..Len(a.a)) :
                 \A i \in 1..Len(a.a) : IsReordering(a.a[i], b.a[f[i]])
       [] a.t = "object" ->
            /\ Len(a.o) = Len(b.o)
            /\ KeySet(a) = KeySet(b)
            /\ \A k \in KeySet(a) : IsReordering(Get(a, k), Get(b, k))
       [] OTHER -> a = b

\* C6: valuesEqual does not depend on source order: it holds of every two
\* values that differ only in the order of mapping keys and array elements.
C6_OrderIndependent ==
  (cmpOp = "valuesEqual" /\ IsReordering(cmpA, cmpB)) => cmpOut

\* C7: valuesEqual ignores the key order of a mapping and keeps the order of
\* a plain array: {a:1,b:2} equals {b:2,a:1}, [1,2] equals [1,2] and [1,2]
\* does not equal [2,1].
C7_ArrayOrderKept ==
  (cmpOp = "valuesEqual") =>
    /\ (cmpA \in KeyOrders /\ cmpB \in KeyOrders) => cmpOut
    /\ (cmpA = Arr(<<Num(1), Num(2)>>) /\ cmpB = Arr(<<Num(1), Num(2)>>)) => cmpOut
    /\ (cmpA = Arr(<<Num(1), Num(2)>>) /\ cmpB = Arr(<<Num(2), Num(1)>>)) => ~cmpOut

-----------------------------------------------------------------------------
(* Properties of the map field *)

MapsOf(objective) ==
  IF Get(objective, "maps").t = "array" THEN Get(objective, "maps").a ELSE <<>>

ApiObjectives ==
  IF Get(TheTask, "objectives").t = "array" THEN Get(TheTask, "objectives").a ELSE <<>>

PatchObjectives ==
  IF Get(override, "objectives").t = "object"
    THEN Values(Get(override, "objectives")) ELSE <<>>

RefsIn(objectives) ==
  UNION {{MapsOf(objectives[i])[j] : j \in 1..Len(MapsOf(objectives[i]))} :
           i \in 1..Len(objectives)}

\* the map references of the canonical objectives and of the objective patches
AllMapRefs == RefsIn(ApiObjectives) \cup RefsIn(PatchObjectives)

\* more than one distinct map key over all these references
MultipleMapKeys ==
  Cardinality({canonicalMapKey(m) : m \in {r \in AllMapRefs : Truthy(canonicalMapKey(r))}}) > 1

Listed == Done /\ Present /\ ~Disabled

\* C8 as stated: with several map keys and no map in the patch, a needed
\* detail is reported for map.
C8_MissingMapNeeded ==
  (Listed /\ MultipleMapKeys /\ ~Declares("map")) => "needed" \in StatusesOf("map")

\* C8 amended: with several map keys and no map in the patch, exactly one
\* needed detail is reported for map when the canonical map is set, and no
\* map detail when the canonical map is null or absent.
C8_MissingMapNeededWhenSet ==
  (Listed /\ MultipleMapKeys /\ ~Declares("map")) =>
    IF Get(TheTask, "map").t \in {"null", "undefined"}
      THEN DetailsOf("map") = {}
      ELSE Cardinality(DetailsOf("map")) = 1 /\ StatusesOf("map") = {"needed"}

C8_Witness ==
  /\ Listed /\ MultipleMapKeys /\ ~Declares("map")
  /\ Get(TheTask, "map") = Factory
  /\ StatusesOf("map") = {"needed"}
  /\ Declares("objectives")

\* C9: with several map keys and a map in the patch there is one map detail;
\* it is fixed exactly when the patch map is null and the canonical map is
\* null; a concrete patch map is needed even when it equals the canonical map.
C9_DeclaredMapOfMultiMapTask ==
  (Listed /\ MultipleMapKeys /\ Declares("map")) =>
    /\ Cardinality(DetailsOf("map")) = 1
    /\ StatusesOf("map") =
         {IF Get(override, "map") = Null /\ Get(TheTask, "map") = Null
            THEN "fixed" ELSE "needed"}

C9_Witness ==
  /\ Listed /\ MultipleMapKeys
  /\ Get(override, "map") = Factory
  /\ Get(TheTask, "map") = Factory
  /\ StatusesOf("map") = {"needed"}

NameOf(m) == IF Get(m, "name").t = "string" THEN Get(m, "name").s ELSE ""

NightFactoryNames == {"Night Factory", "  NIGHT factory "}

GroundZero21Names == {"Ground Zero 21+", "ground ZERO 21+ "}

FactoryGroup == {m \in MapRefs : m = Factory \/ NameOf(m) \in NightFactoryNames}

GroundZeroGroup == {m \in MapRefs : m = GroundZero \/ NameOf(m) \in GroundZero21Names}

\* every reference is a base map or one of its variants, and both occur
BaseAndVariantOnly ==
  \/ AllMapRefs \subseteq FactoryGroup /\ Cardinality(AllMapRefs) > 1
  \/ AllMapRefs \subseteq GroundZeroGroup /\ Cardinality(AllMapRefs) > 1

\* C10: the names Night Factory and Ground Zero 21+, in any case and with
\* surrounding blanks, get the key of Factory and of Ground Zero; a reference
\* without a name or with a blank name gets its id, an absent reference
\* gets undefined; a task whose objective maps are a base map and its variant
\* has its map compared by the ordinary subset rule.
C10_VariantsShareKey ==
  Listed =>
    /\ \A m \in AllMapRefs :
         /\ (m = Null) => canonicalMapKey(m) = Undef
         /\ (m # Null /\ NameOf(m) \in NightFactoryNames) =>
              canonicalMapKey(m) = Str("Factory") /\ canonicalMapKey(m) = canonicalMapKey(Factory)
         /\ (m # Null /\ NameOf(m) \in GroundZero21Names) =>
              canonicalMapKey(m) = Str("Ground Zero")
                /\ canonicalMapKey(m) = canonicalMapKey(GroundZero)
         /\ (m # Null /\ NameOf(m) \in {"", "  "}) => canonicalMapKey(m) = Get(m, "id")
    /\ BaseAndVariantOnly =>
         IF Declares("map")
           THEN /\ Cardinality(DetailsOf("map")) = 1
                /\ StatusesOf("map") =
                     {IF compareSubset(Get(override, "map"), Get(TheTask, "map"))
                        THEN "fixed" ELSE "needed"}
           ELSE DetailsOf("map") = {}

C10_Witness ==
  /\ Listed
  /\ AllMapRefs = {Factory, MapRef("night-factory", "  NIGHT factory ")}
  /\ Get(override, "map") = Factory
  /\ Get(TheTask, "map") = Factory
  /\ StatusesOf("map") = {"fixed"}

-----------------------------------------------------------------------------
(* Properties of the task requirements *)

\* the requirement list of the patch
PatchReqs == Get(override, "taskRequirements").a

\* the requirement list of the canonical record, empty when it has none
CanonicalReqs ==
  IF Get(TheTask, "taskRequirements").t = "array"
    THEN Get(TheTask, "taskRequirements").a ELSE <<>>

\* the spellings of the statuses active and accepted that occur in the inputs
ActiveSpellings == {" Active ", "ACCEPTED", "accepted"}

StatusesListed(r) ==
  IF Get(r, "status").t = "array"
    THEN {Get(r, "status").a[i].s : i \in 1..Len(Get(r, "status").a)} ELSE {}

\* the canonical requirements that are not active or accepted
Remaining == SelectSeq(CanonicalReqs, LAMBDA r : StatusesListed(r) \cap ActiveSpellings = {})

IdsOf(reqs) == {Get(Get(reqs[i], "task"), "id").s : i \in 1..Len(reqs)}

\* obj with the value of key replaced
WithField(obj, key, value) ==
  Obj([i \in 1..Len(obj.o) |-> IF obj.o[i][1] = key THEN <<key, value>> ELSE obj.o[i]])

DeclaresRequirements == Listed /\ Declares("taskRequirements")

\* C11: active and accepted canonical requirements (any case, blanks around)
\* play no part in the comparison: the details are those obtained from the
\* remaining requirements alone; when none remains and the patch lists a
\* requirement, the taskRequirements detail is needed.
C11_ActiveRequirementsDropped ==
  DeclaresRequirements =>
    /\ result.details =
         CollectDetails(override, WithField(TheTask, "taskRequirements", Arr(Remaining)))
    /\ (Remaining = <<>> /\ Len(PatchReqs) > 0) =>
         /\ Cardinality(DetailsOf("taskRequirements")) = 1
         /\ StatusesOf("taskRequirements") = {"needed"}

C11_Witness ==
  /\ DeclaresRequirements
  /\ Len(CanonicalReqs) = 2 /\ Remaining = <<>>
  /\ IdsOf(PatchReqs) \subseteq IdsOf(CanonicalReqs)
  /\ PatchReqs # <<>>
  /\ StatusesOf("taskRequirements") = {"needed"}

\* C12: when some canonical requirement remains there is one
\* taskRequirements detail, fixed exactly when the ids of the patch and the
\* ids of the remaining canonical requirements are the same set, in whatever
\* order either list is, and needed otherwise.
C12_RequirementIdSets ==
  (DeclaresRequirements /\ Remaining # <<>>) =>
    /\ Cardinality(DetailsOf("taskRequirements")) = 1
    /\ StatusesOf("taskRequirements") =
         {IF IdsOf(PatchReqs) = IdsOf(Remaining) THEN "fixed" ELSE "needed"}

-----------------------------------------------------------------------------
(* Properties of the objective patches *)

\* the entries of the objectives mapping of the patch
ObjectiveEntries ==
  IF Get(override, "objectives").t = "object" THEN Get(override, "objectives").o ELSE <<>>

\* the canonical objectives that carry the id
CanonicalWithId(objId) ==
  {i \in 1..Len(ApiObjectives) : Get(ApiObjectives[i], "id") = Str(objId)}

CanonicalObjective(objId) == ApiObjectives[CHOOSE i \in CanonicalWithId(objId) : TRUE]

\* the details whose field starts with the prefix
DetailsUnder(prefix) ==
  {i \in 1..Len(result.details) :
     /\ Len(result.details[i].field) >= Len(prefix)
     /\ SubSeq(result.details[i].field, 1, Len(prefix)) = prefix}

\* C13: a patch for an objective the canonical task lacks gets the single
\* detail objective:<id> with status check and makes the verdict NEEDED
\* whatever else the patch declares; a patch for a listed objective gets one
\* detail objective:<id>:<field> per declared sub-field, fixed exactly when
\* compareSubset(patch sub-value, canonical sub-value) holds.
C13_ObjectivePatches ==
  Listed =>
    \A e \in 1..Len(ObjectiveEntries) :
      LET objId == ObjectiveEntries[e][1]
          patch == ObjectiveEntries[e][2]
          label == "objective:" \o objId
      IN  IF CanonicalWithId(objId) = {}
            THEN /\ Cardinality(DetailsUnder(label)) = 1
                 /\ Cardinality(DetailsOf(label)) = 1
                 /\ StatusesOf(label) = {"check"}
                 /\ result.status = "NEEDED" /\ result.stillNeeded
            ELSE /\ DetailsOf(label) = {}
                 /\ Cardinality(DetailsUnder(label)) =
                      Cardinality({f \in 1..Len(patch.o) : patch.o[f][2] # Undef})
                 /\ \A f \in 1..Len(patch.o) :
                      LET field == label \o ":" \o patch.o[f][1]
                      IN  IF patch.o[f][2] = Undef THEN DetailsOf(field) = {}
                          ELSE /\ Cardinality(DetailsOf(field)) = 1
                               /\ StatusesOf(field) =
                                    {IF compareSubset(patch.o[f][2],
                                                      Get(CanonicalObjective(objId), patch.o[f][1]))
                                       THEN "fixed" ELSE "needed"}

C13_Witness ==
  /\ Listed /\ Len(ObjectiveEntries) = 2
  /\ ObjectiveEntries[1][1] = "obj-9" /\ ObjectiveEntries[2][1] = "obj-1"
  /\ Len(ApiObjectives) = 2
  /\ StatusesOf("objective:obj-9") = {"check"}
  /\ StatusesOf("objective:obj-1:count") = {"fixed"}
  /\ StatusesOf("name") = {"fixed"}
  /\ AllStatuses = {"check", "fixed"}
  /\ result.status = "NEEDED"

\* the entries of the objectivesAdd list of the patch
AddedEntries ==
  IF Get(override, "objectivesAdd").t = "array" THEN Get(override, "objectivesAdd").a ELSE <<>>

\* some canonical objective has the id or the very description of the entry
ListedUpstream(added) ==
  \E i \in 1..Len(ApiObjectives) :
    \/ Get(ApiObjectives[i], "id") = Get(added, "id")
    \/ Get(ApiObjectives[i], "description") = Get(added, "description")

\* C14: for a listed task whose patch is not disabled, the details end with
\* one detail per entry of objectivesAdd, in the order of the list and no
\* other detail is about objectivesAdd; the detail of an entry is fixed
\* exactly when a canonical objective has its id or its exact description.
C14_AddedObjectives ==
  Listed =>
    LET n == Len(AddedEntries)
        d == Len(result.details)
    IN  /\ Cardinality(DetailsUnder("objectivesAdd:")) = n
        /\ d >= n
        /\ \A k \in 1..n :
             /\ k + (d - n) \in DetailsUnder("objectivesAdd:")
             /\ result.details[k + (d - n)].status =
                  IF ListedUpstream(AddedEntries[k]) THEN "fixed" ELSE "needed"

C14_Witness ==
  /\ Listed /\ Len(AddedEntries) = 2
  /\ AddedEntries[1] = AddedObjective("new-1", "Find item")
  /\ AddedEntries[2] = AddedObjective("new-3", "find item")
  /\ Len(ApiObjectives) = 2
  /\ result.details = <<Detail("objectivesAdd:new-1", "fixed"),
                        Detail("objectivesAdd:new-3", "needed")>>

-----------------------------------------------------------------------------
(* Properties of the batch run *)

\* the list holds the verdict
Holds(list, verdict) == \E k \in 1..Len(list) : list[k] = verdict

\* the partitions that hold the verdict
PartitionsOf(verdict) ==
  {name \in {"stillNeeded", "fixed", "removedFromApi"} : Holds(categorized[name], verdict)}

\* C15: whatever list of verdicts categorizeResults is given, every verdict
\* of the list is in exactly one of stillNeeded, fixed and removedFromApi,
\* and the three lists together are as long as the list given.
C15_PartitionsCover ==
  (pc = "categorized") =>
    /\ \A i \in 1..Len(results) : Cardinality(PartitionsOf(results[i])) = 1
    /\ Len(categorized.stillNeeded) + Len(categorized.fixed)
         + Len(categorized.removedFromApi) = Len(results)

\* the entries of the batch
BatchEntries == overrides.o

Reverse(seq) == [i \in 1..Len(seq) |-> seq[Len(seq) + 1 - i]]

\* one verdict per entry, each the verdict of its entry validated alone, and
\* the same verdicts in reverse when the entries are taken in reverse
OneVerdictPerEntry ==
  (pc = "validated") =>
    /\ Len(results) = Len(BatchEntries)
    /\ \A i \in 1..Len(BatchEntries) :
         /\ results[i].id = BatchEntries[i][1]
         /\ results[i] = validateTaskOverride(BatchEntries[i][1], BatchEntries[i][2], apiTasks)
         /\ <<results[i]>> = validateAllOverrides(Obj(<<BatchEntries[i]>>), apiTasks)
    /\ validateAllOverrides(Obj(Reverse(BatchEntries)), apiTasks) = Reverse(results)

-----------------------------------------------------------------------------
(* Properties of the failure behaviour *)

IsString(x) == x.t = "string"

\* x is absent or satisfies ok
Optional(x, ok) == x.t = "undefined" \/ ok

\* x is absent, null or satisfies ok
Nullable(x, ok) == x.t \in {"undefined", "null"} \/ ok

AllOf(list, Ok(_)) == list.t = "array" /\ \A i \in 1..Len(list.a) : Ok(list.a[i])

\* { id: string; name: string }
IsMapRef(m) == m.t = "object" /\ IsString(Get(m, "id")) /\ IsString(Get(m, "name"))

\* a map reference of a canonical record, its fields possibly missing or null
IsCanonicalMapRef(m) ==
  m.t = "object" /\ Nullable(Get(m, "id"), IsString(Get(m, "id")))
    /\ Nullable(Get(m, "name"), IsString(Get(m, "name")))

\* TaskRequirement of a patch
IsRequirement(r) ==
  /\ r.t = "object"
  /\ Get(r, "task").t = "object" /\ IsString(Get(Get(r, "task"), "id"))
  /\ Optional(Get(r, "status"), AllOf(Get(r, "status"), IsString))

\* TaskRequirement of a canonical record
IsCanonicalRequirement(r) ==
  /\ r.t = "object"
  /\ Nullable(Get(r, "task"),
              /\ Get(r, "task").t = "object"
              /\ Nullable(Get(Get(r, "task"), "id"), IsString(Get(Get(r, "task"), "id"))))
  /\ Nullable(Get(r, "status"), AllOf(Get(r, "status"), IsString))

\* ObjectiveOverride
IsObjectiveOverride(o) ==
  o.t = "object" /\ Optional(Get(o, "maps"), AllOf(Get(o, "maps"), IsMapRef))

\* ObjectiveAdd
IsObjectiveAdd(o) ==
  /\ o.t = "object" /\ IsString(Get(o, "id")) /\ IsString(Get(o, "description"))
  /\ Optional(Get(o, "maps"), AllOf(Get(o, "maps"), IsMapRef))

\* TaskObjective of a canonical record
IsCanonicalObjective(o) ==
  /\ o.t = "object" /\ IsString(Get(o, "id"))
  /\ Nullable(Get(o, "description"), IsString(Get(o, "description")))
  /\ Nullable(Get(o, "maps"), AllOf(Get(o, "maps"), IsCanonicalMapRef))

\* the patch has the shape of TaskOverride
ConformsToTaskOverride(ov) ==
  /\ ov.t = "object"
  /\ \A i \in 1..Len(ov.o) :
       LET field == ov.o[i][1]
           value == ov.o[i][2]
       IN  \/ value.t = "undefined"
           \/ CASE field \in {"name", "wikiLink", "factionName"} -> IsString(value)
                [] field \in {"minPlayerLevel", "experience"} -> value.t = "number"
                [] field \in {"disabled", "kappaRequired", "lightkeeperRequired"} ->
                     value.t = "boolean"
                [] field = "map" -> value.t = "null" \/ IsMapRef(value)
                [] field \in {"requiredPrestige", "startRewards", "finishRewards"} ->
                     value.t = "object"
                [] field = "traderRequirements" -> value.t = "array"
                [] field = "taskRequirements" -> AllOf(value, IsRequirement)
                [] field = "objectivesAdd" -> AllOf(value, IsObjectiveAdd)
                [] field = "objectives" ->
                     /\ value.t = "object"
                     /\ \A j \in 1..Len(value.o) : IsObjectiveOverride(value.o[j][2])
                [] OTHER -> FALSE

\* the canonical record has the shape of TaskData, fields possibly missing
\* or null
ConformsToTaskData(task) ==
  /\ task.t = "object"
  /\ IsString(Get(task, "id"))
  /\ Nullable(Get(task, "name"), IsString(Get(task, "name")))
  /\ Nullable(Get(task, "map"), IsCanonicalMapRef(Get(task, "map")))
  /\ Nullable(Get(task, "objectives"), AllOf(Get(task, "objectives"), IsCanonicalObjective))
  /\ Nullable(Get(task, "taskRequirements"),
              AllOf(Get(task, "taskRequirements"), IsCanonicalRequirement))

Conformant ==
  /\ ConformsToTaskOverride(override)
  /\ \A i \in 1..Len(apiTasks) : ConformsToTaskData(apiTasks[i])

\* C17: for a patch of the shape of TaskOverride and canonical records of
\* the shape of TaskData (fields missing or null, lists empty, objective ids
\* unknown, the task absent) validateTaskOverride does not throw; it returns
\* a verdict for the id asked.
C17_NeverThrows ==
  Conformant =>
    /\ pc \in {"start", "done"}
    /\ Done => /\ result.id = taskId
               /\ result.status \in {"NEEDED", "FIXED", "REMOVED_FROM_API"}

C17_Witness ==
  /\ Conformant /\ Done /\ Present
  /\ Get(TheTask, "objectives") = Null
  /\ Get(TheTask, "taskRequirements") = Null
  /\ Declares("objectives") /\ Declares("objectivesAdd") /\ Declares("taskRequirements")
  /\ "objective:obj-2" \in {result.details[i].field : i \in 1..Len(result.details)}
  /\ result.status = "NEEDED"

-----------------------------------------------------------------------------
(* Further properties of the comparator *)

RECURSIVE UpToNullish(_, _)
\* a and b are the same value except that, at some positions, one holds
\* undefined where the other holds null
UpToNullish(a, b) ==
  \/ a = b
  \/ {a.t, b.t} = {"undefined", "null"}
  \/ /\ a.t = "array" /\ b.t = "array" /\ Len(a.a) = Len(b.a)
     /\ \A i \in 1..Len(a.a) : UpToNullish(a.a[i], b.a[i])
  \/ /\ a.t = "object" /\ b.t = "object" /\ Keys(a) = Keys(b)
     /\ \A i \in 1..Len(a.o) : UpToNullish(a.o[i][2], b.o[i][2])

\* C18: valuesEqual(undefined, undefined) is true; valuesEqual of undefined
\* and null is false in both orders; two arrays or mappings that differ only
\* in holding undefined where the other holds null are not equal.
C18_UndefinedIsNotNull ==
  (cmpOp = "valuesEqual") =>
    /\ (cmpA = Undef /\ cmpB = Undef) => cmpOut
    /\ ({cmpA, cmpB} = {Undef, Null}) => ~cmpOut
    /\ (cmpA # cmpB /\ UpToNullish(cmpA, cmpB)) => ~cmpOut

\* normalizeValue changes the serialisation of value, at the top level and
\* inside one of its elements
ReordersNested(value) ==
  /\ value.t = "array"
  /\ JsonStringify(normalizeValue(value)) # JsonStringify(value)
  /\ \E i \in 1..Len(value.a) :
       JsonStringify(normalizeValue(value.a[i])) # JsonStringify(value.a[i])

Idempotent(value) ==
  JsonStringify(normalizeValue(normalizeValue(value))) = JsonStringify(normalizeValue(value))

\* C19: normalisation is idempotent: normalizeValue applied to its own result
\* serialises as that result does, for both values given to the comparator.
C19_NormalizeIdempotent ==
  (cmpOp = "valuesEqual") => Idempotent(cmpA) /\ Idempotent(cmpB)

C19_Witness ==
  /\ cmpOp = "valuesEqual"
  /\ ReordersNested(cmpA)
  /\ Idempotent(cmpA)

-----------------------------------------------------------------------------
(* Properties of the monitor's sections *)

Rows == Get(section, "rows").a

Smaller(m, n) == IF m < n THEN m ELSE n

-----------------------------------------------------------------------------
(* Properties of the merged task patches *)

OwnKeys(obj) == IF IsObject(obj) THEN {obj.o[i][1] : i \in 1..Len(obj.o)} ELSE {}

\* the elements of a list, none when the list is absent
ListOf(value) == IF IsArray(value) THEN value.a ELSE <<>>

\* the fields of a patch that are merged rather than replaced
MergedFields == {"objectives", "objectivesAdd"}

\* r is the patch sh overlaid with the patch of the mode mo
OverlaidBy(r, sh, mo) ==
  /\ \A f \in OwnKeys(mo) \ MergedFields : Get(r, f) = Get(mo, f)
  /\ \A id \in OwnKeys(Get(mo, "objectives")) :
       Get(Get(r, "objectives"), id) = Get(Get(mo, "objectives"), id)
  /\ \A id \in OwnKeys(Get(sh, "objectives")) \ OwnKeys(Get(mo, "objectives")) :
       Get(Get(r, "objectives"), id) = Get(Get(sh, "objectives"), id)
  /\ OwnKeys(Get(r, "objectives"))
       = OwnKeys(Get(sh, "objectives")) \cup OwnKeys(Get(mo, "objectives"))
  /\ ListOf(Get(r, "objectivesAdd"))
       = ListOf(Get(sh, "objectivesAdd")) \o ListOf(Get(mo, "objectivesAdd"))

MergedAsStated ==
  (merged # Undef) =>
    /\ \A k \in OwnKeys(shared) \ OwnKeys(modeSpecific) : Get(merged, k) = Get(shared, k)
    /\ \A k \in OwnKeys(shared) \cap OwnKeys(modeSpecific) :
         OverlaidBy(Get(merged, k), Get(shared, k), Get(modeSpecific, k))

-----------------------------------------------------------------------------
(* Properties of the event streams *)

\* the view a query asks for: its view parameter, else its type parameter
AskedView(q) == OrElse(q.view, q.type)

\* the view of a query: the asked one if VIEW_CONFIG declares it, else tasks
ViewOfQuery(q) ==
  IF AskedView(q).t = "string" /\ IsViewName(AskedView(q).s)
    THEN AskedView(q).s ELSE "tasks"

\* the mode of a query: pve or regular as asked, else regular; none for a
\* view that does not require a mode
ModeOfQuery(q) ==
  IF ViewOfQuery(q) \notin {"tasks", "tasksAdd"} THEN ""
  ELSE IF q.mode \in {Str("pve"), Str("regular")} THEN q.mode.s
  ELSE "regular"

KeyOfQuery(q) == ViewOfQuery(q) \o ":" \o ModeOfQuery(q)

\* the summary event for the state the key of q had after n rebuilds
FirstFrameOf(q, n) ==
  SummaryFrame([view |-> ViewOfQuery(q),
                mode |-> IF ModeOfQuery(q) = "" THEN Null ELSE Str(ModeOfQuery(q)),
                summary |-> n])

\* C22: a response of GET /events is subscribed under the key of its
\* normalised view and mode (an unknown view is tasks, an unknown mode is
\* regular, no mode for a view that requires none), and the first frame it
\* receives is the summary event of the state of that key at the request,
\* before any broadcast or keep-alive frame.
C22_SubscribedUnderNormalisedKey ==
  \A c \in Clients :
    (conns[c].phase = "open") =>
      /\ conns[c].key = KeyOfQuery(conns[c].query)
      /\ (Writable(conns[c]) /\ ~conns[c].closed) =>
           c \in ClientsOf(clientsByKey, KeyOfQuery(conns[c].query))
      /\ (conns[c].frames # <<>>) =>
           conns[c].frames[1] = FirstFrameOf(conns[c].query, conns[c].since)

\* the response is destroyed or ended
Gone(conn) == conn.destroyed \/ conn.writableEnded

\* the keys under which a response is subscribed
SubscribedKeys(c) == {k \in DOMAIN clientsByKey : c \in clientsByKey[k]}

\* a response is subscribed only under its own key, after its request and
\* before its cleanup; cleanup took effect at most once, and afterwards the
\* response is subscribed nowhere and its timer is stopped
SubscribedWhileOpen ==
  \A c \in Clients :
    /\ SubscribedKeys(c) \subseteq {conns[c].key}
    /\ (SubscribedKeys(c) # {}) => (conns[c].phase = "open" /\ ~conns[c].closed)
    /\ conns[c].cleanups <= 1
    /\ conns[c].closed =>
         (conns[c].cleanups = 1 /\ SubscribedKeys(c) = {} /\ ~conns[c].keepAlive)

\* a step writes a frame only to a response that is neither destroyed nor
\* ended, and a broadcast or keep-alive that meets such a response among the
\* subscribers removes it
WritesOnlyToWritable ==
  \A c \in Clients :
    /\ (conns'[c].frames # conns[c].frames) => ~Gone(conns[c])
    /\ LET attempted ==
             \/ summaryByKey' # summaryByKey
                  /\ conns[c].key \in {RebuildKeys[i] : i \in 1..Len(RebuildKeys)}
             \/ conns[c].keepAlive /\ conns'[c].closed /\ ~conns[c].closed
                  /\ conns'[c].destroyed = conns[c].destroyed
       IN  (attempted /\ SubscribedKeys(c) # {} /\ Gone(conns[c])) =>
             (conns[c].key \in DOMAIN clientsByKey' /\ c \notin clientsByKey'[conns[c].key])

\* C28: a response is in the subscriber set of its key only between its
\* /events request and the first close, finish or error of its connection;
\* cleanup takes effect at most once, removes the subscriber and stops its
\* keep-alive timer; a broadcast or keep-alive never writes to a destroyed or
\* ended subscriber but removes it.
C28_SubscriberLifetime ==
  /\ [][WritesOnlyToWritable]_vars
  /\ []SubscribedWhileOpen

C28_Witness ==
  \E c \in Clients, d \in Clients :
    /\ c # d
    /\ conns[c].phase = "open" /\ Gone(conns[c]) /\ ~conns[c].closed
    /\ SubscribedKeys(c) = {}
    /\ conns[d].closed /\ conns[d].cleanups = 1 /\ Len(conns[d].frames) >= 2

-----------------------------------------------------------------------------
(* Properties of the summaries *)

SummaryBuilt == summaryArgs # Undef

OverlayLoaded == Truthy(overlayState.data)

KnownView == IsViewName(summaryArgs.view)

\* no error is recorded for the overlay or for the API of either mode
NoSourceError ==
  /\ overlayState.error = Null
  /\ apiState.regular.error = Null
  /\ apiState.pve.error = Null

\* the titles of the sections of a view, in order
TitlesOfView(view, mode) ==
  CASE view = "tasks" -> <<"Task Overrides vs API", "Added Objectives",
                           "Tasks Missing From API", "Disabled Tasks">>
    [] view = "tasksAdd" -> <<"Task Additions (" \o mode \o ")">>
    [] view = "items" -> <<"Items Overrides">>
    [] view = "hideout" -> <<"Hideout Overrides">>
    [] view = "traders" -> <<"Traders Overrides">>
    [] view = "editions" -> <<"Editions">>
    [] view = "storyChapters" -> <<"Story Chapters">>
    [] view = "itemsAdd" -> <<"Items Additions Overrides">>
    [] OTHER -> <<>>

TitlesOf(sections) == [i \in 1..Len(sections) |-> Get(sections[i], "title").s]

EmptyWithError == summaryOut.sections = <<>> /\ summaryOut.error.t = "string"

\* without overlay data: no sections and an error, whatever the view and mode
NotLoadedIsAnError == (SummaryBuilt /\ ~OverlayLoaded) => EmptyWithError

\* a known view with overlay data: the sections of the view, and no error
\* unless one is recorded for a source
KnownViewIsBuilt ==
  (SummaryBuilt /\ OverlayLoaded /\ KnownView) =>
    /\ TitlesOf(summaryOut.sections) = TitlesOfView(summaryArgs.view, summaryArgs.mode)
    /\ NoSourceError => summaryOut.error = Null
    /\ (overlayState.error # Null) => summaryOut.error = overlayState.error

UnknownViewError == summaryOut.sections = <<>> /\ summaryOut.error = Str("Unknown view")

-----------------------------------------------------------------------------
(* The monitor's task diff beside the validator: both are applied to the   *)
(* same patch and the same canonical records                               *)

InitDiff ==
  /\ \E input \in ValidatorInputs :
       /\ ConformsToTaskOverride(input.ov)
       /\ \A i \in 1..Len(input.tasks) : ConformsToTaskData(input.tasks[i])
       /\ taskId = input.id
       /\ override = input.ov
       /\ apiTasks = input.tasks
  /\ result = NoResult
  /\ pc = "start"
  /\ cmpA = Undef
  /\ cmpB = Undef
  /\ cmpOp = "idle"
  /\ cmpOut = FALSE
  /\ BatchIdle
  /\ SectionIdle
  /\ MonitorIdle

\* buildTasksSections for the patch of taskId alone, as buildSummary calls it
BuildTasksSections ==
  /\ taskSections = Undef
  /\ taskSections' = buildTasksSections(Obj(<< <<taskId, override>> >>), apiTasks, "regular")
  /\ UNCHANGED notDiff

NextDiff == Validate \/ BuildTasksSections

SpecDiff == InitDiff /\ [][NextDiff]_vars

\* the fields checked by a validator made by createFieldValidator
SimpleFields ==
  {"minPlayerLevel", "name", "wikiLink", "experience", "startRewards", "finishRewards",
   "factionName", "requiredPrestige"}

\* the rows of the section Task Overrides vs API
DiffRows == Get(taskSections[1], "rows").a

\* the status the monitor shows for a field, none when it shows no row
MonitorStatus(field) ==
  {DiffRows[i].a[5].s : i \in {j \in 1..Len(DiffRows) : DiffRows[j].a[2] = Str(field)}}

\* the status the validator reports for a field, none when it reports none
ValidatorStatus(field) ==
  {result.details[i].status :
     i \in {j \in 1..Len(result.details) : result.details[j].field = field}}

\* both have run on a task the API lists and the patch does not disable
BothRan == Listed /\ taskSections # Undef

\* the objective patches of the patch, as <<id, field>> pairs with a value
PatchedObjectiveFields ==
  LET objectives == Get(override, "objectives")
  IN  IF ~IsObject(objectives) THEN {}
      ELSE UNION { { <<objectives.o[i][1], objectives.o[i][2].o[k][1]>> :
                       k \in {n \in 1..Len(objectives.o[i][2].o) :
                                objectives.o[i][2].o[n][2] # Undef} } :
                   i \in {n \in 1..Len(objectives.o) : IsObject(objectives.o[n][2])} }

\* C24: the monitor's task diff and the validator agree: for every declared
\* top-level or objective field of a present task, buildTasksSections shows
\* the status same exactly when validateTaskOverride reports the field fixed.
C24_MonitorAgreesWithValidator ==
  BothRan =>
    /\ \A f \in SimpleFields :
         (Get(override, f) # Undef) =>
           (("same" \in MonitorStatus(f)) <=> ("fixed" \in ValidatorStatus(f)))
    /\ \A p \in PatchedObjectiveFields :
         ("same" \in MonitorStatus("objective:" \o p[1] \o "." \o p[2]))
           <=> ("fixed" \in ValidatorStatus("objective:" \o p[1] \o ":" \o p[2]))

-----------------------------------------------------------------------------
(* Refreshing the sources: refreshOverlay, refreshApiTasks, rebuildSummaries *)

\* the refreshes requested in a run, all sources together
MaxRequests == 4

\* apiState[mode] of an API source
ModeOfSource(s) == IF s = "apiPve" THEN "pve" ELSE "regular"

\* what loadOverlay / fetchApiTasks settles with: a value, or an error thrown
Loaded(data, updatedAt) ==
  [ok |-> TRUE, data |-> data, updatedAt |-> Str(updatedAt), message |-> Undef]

Failed(message) == [ok |-> FALSE, data |-> Undef, updatedAt |-> Undef, message |-> Str(message)]

\* an overlay whose patch of t1 for the mode regular is null
NullPatchOverlay ==
  Obj(<< <<"modes", Obj(<< <<"regular", Obj(<< <<"tasks", Obj(<< <<"t1", Null>> >>)>> >>)>> >>)>> >>)

OverlayOutcomes ==
  {Loaded(FullOverlay, "2026-01-01T00:00:00.000Z"),
   Loaded(NullPatchOverlay, "2026-01-02T00:00:00.000Z"),
   Failed("Unexpected end of JSON input"),
   Failed("")}

ApiOutcomes ==
  {Loaded(Arr(<<ApiTask1>>), "2026-01-01T00:00:00.000Z"),
   Loaded(Arr(<<Null>>), "2026-01-02T00:00:00.000Z"),
   Failed("API request failed: 503 Service Unavailable")}

Outcomes(s) == IF s = "overlay" THEN OverlayOutcomes ELSE ApiOutcomes

\* the message of the TypeError a property read of null throws
RebuildError == Str("Cannot read properties of null")

\* "Unable to read overlay" / "Unable to fetch API tasks"
Fallback(s) == IF s = "overlay" THEN "Unable to read overlay" ELSE "Unable to fetch API tasks"

\* mergeTaskOverride throws: base.objectives or next.objectives of null, or
\* the spread of an objectivesAdd that cannot be iterated
mergeTaskOverrideThrows(baseArg, nextArg) ==
  LET base == IF baseArg = Undef THEN Obj(<<>>) ELSE baseArg
      next == IF nextArg = Undef THEN Obj(<<>>) ELSE nextArg
  IN  \/ base = Null
      \/ next = Null
      \/ /\ Truthy(Get(base, "objectivesAdd")) \/ Truthy(Get(next, "objectivesAdd"))
         /\ \/ ~Iterable(OrElse(Get(base, "objectivesAdd"), Arr(<<>>)))
            \/ ~Iterable(OrElse(Get(next, "objectivesAdd"), Arr(<<>>)))

RECURSIVE MergeEntriesThrow(_, _)
MergeEntriesThrow(acc, entries) ==
  IF entries = <<>> THEN FALSE
  ELSE \/ mergeTaskOverrideThrows(Get(acc, Head(entries)[1]), Head(entries)[2])
       \/ MergeEntriesThrow(
            Assign(acc, Head(entries)[1],
                   mergeTaskOverride(Get(acc, Head(entries)[1]), Head(entries)[2])),
            Tail(entries))

mergeTaskOverridesThrows(sharedArg, modeArg) ==
  LET sharedTasks == IF sharedArg = Undef THEN Obj(<<>>) ELSE sharedArg
      modeTasks == IF modeArg = Undef THEN Obj(<<>>) ELSE modeArg
  IN  MergeEntriesThrow(Spread(sharedTasks, Obj(<<>>)), Entries(modeTasks))

\* the rows of one patch throw: apiTask.objectives?.find on a value without
\* find, objective.id of a null objective, objective.description of a null
\* added objective
TaskRowsThrow(ov, apiTask) ==
  LET objectives == Get(ov, "objectives")
      objectivesAdd == Get(ov, "objectivesAdd")
      apiObjectives == Get(apiTask, "objectives")
      patched == {i \in 1..Len(Entries(objectives)) : ~NotAnObject(Entries(objectives)[i][2])}
      findThrows(objectiveId) ==
        \/ ~Nullish(apiObjectives) /\ ~IsArray(apiObjectives)
        \/ /\ IsArray(apiObjectives)
           /\ \E i \in 1..Len(apiObjectives.a) :
                /\ Nullish(apiObjectives.a[i])
                /\ \A j \in 1..(i - 1) : Get(apiObjectives.a[j], "id") # Str(objectiveId)
  IN  \/ /\ Truthy(objectives)
         /\ TypeofObject(objectives)
         /\ \E i \in patched : findThrows(Entries(objectives)[i][1])
      \/ /\ IsArray(objectivesAdd)
         /\ \E i \in 1..Len(objectivesAdd.a) : Nullish(objectivesAdd.a[i])

\* buildTasksSections throws: task.id of a null task, or the rows of a patch
buildTasksSectionsThrows(overrideMap, tasks) ==
  \/ \E i \in 1..Len(tasks) : Nullish(tasks[i])
  \/ \E i \in 1..Len(Entries(overrideMap)) :
       LET id == Entries(overrideMap)[i][1]
           ov == Entries(overrideMap)[i][2]
       IN  /\ ~NotAnObject(ov)
           /\ Truthy(ApiById(tasks, id))
           /\ TaskRowsThrow(ov, ApiById(tasks, id))

\* buildSummary(view, mode) throws instead of returning a summary
buildSummaryThrows(view, mode, ovState, api) ==
  LET overlay == ovState.data
      sharedOverrides == OrElse(Get(overlay, "tasks"), Obj(<<>>))
      modeOverrides == OrElse(ModePart(overlay, mode, "tasks"), Obj(<<>>))
  IN  /\ ~OverlayMissing(overlay)
      /\ view = "tasks"
      /\ \/ mergeTaskOverridesThrows(sharedOverrides, modeOverrides)
         \/ buildTasksSectionsThrows(mergeTaskOverrides(sharedOverrides, modeOverrides),
                                     ApiTasksOf(api, mode))

\* the calls of buildSummary in rebuildSummaries, in its order
RebuildCalls ==
  << <<"tasks", "regular">>, <<"tasks", "pve">>, <<"tasksAdd", "regular">>,
     <<"tasksAdd", "pve">>, <<"items", "">>, <<"hideout", "">>, <<"traders", "">>,
     <<"editions", "">>, <<"storyChapters", "">>, <<"itemsAdd", "">> >>

\* the calls of buildSummary that return before one of them throws
CallsStored(ovState, api) ==
  LET throwing == {i \in 1..Len(RebuildCalls) :
                     buildSummaryThrows(RebuildCalls[i][1], RebuildCalls[i][2], ovState, api)}
  IN  IF throwing = {} THEN Len(RebuildCalls)
      ELSE (CHOOSE i \in throwing : \A j \in throwing : i <= j) - 1

\* summaryByKey after summaryByKey.set(key, summary) for the first calls of
\* rebuildSummaries, as many as stored, and whether the next call threw
StoreCalls(summaries, ovState, api, stored) ==
  LET keyOf(i) == getSummaryKey(RebuildCalls[i][1], RebuildCalls[i][2])
      keys == {keyOf(i) : i \in 1..stored}
      callOf(k) == RebuildCalls[CHOOSE i \in 1..stored : keyOf(i) = k]
  IN  [summaries |->
         [k \in DOMAIN summaries \cup keys |->
            IF k \in keys THEN buildSummary(callOf(k)[1], callOf(k)[2], ovState, api)
            ELSE summaries[k]],
       threw |-> stored < Len(RebuildCalls)]

rebuildSummaries(summaries, ovState, api) ==
  StoreCalls(summaries, ovState, api, CallsStored(ovState, api))

\* overlayState or apiState[mode]
SourceOf(s, ovState, api) == IF s = "overlay" THEN ovState ELSE api[ModeOfSource(s)]

\* the states of the sources with that of s replaced
PutSource(s, ovState, api, state) ==
  IF s = "overlay" THEN [overlay |-> state, api |-> api]
  ELSE [overlay |-> ovState, api |-> [api EXCEPT ![ModeOfSource(s)] = state]]

\* what try and catch leave: the states of the sources, the summaries stored,
\* and whether the promise of the refresh is rejected
Settled(sources, rebuilt) ==
  [overlay |-> sources.overlay, api |-> sources.api,
   summaries |-> rebuilt.summaries, rejected |-> rebuilt.threw]

\* the catch block: the error of the source is set and the summaries are rebuilt
CatchWith(caught, summaries) ==
  Settled(caught, rebuildSummaries(summaries, caught.overlay, caught.api))

Catch(s, message, sources, summaries) ==
  CatchWith(PutSource(s, sources.overlay, sources.api,
                      [SourceOf(s, sources.overlay, sources.api) EXCEPT
                         !.error = OrElse(message, Str(Fallback(s)))]),
            summaries)

\* the try block after the load returned: the summaries are rebuilt, and a
\* rebuild that throws is caught like a failed load
TryWith(s, tried, first) ==
  IF first.threw THEN Catch(s, RebuildError, tried, first.summaries)
  ELSE Settled(tried, first)

Try(s, tried, summaries) ==
  TryWith(s, tried, rebuildSummaries(summaries, tried.overlay, tried.api))

\* try / catch of refreshOverlay and refreshApiTasks once the load has settled
Settle(s, outcome, summaries, ovState, api) ==
  IF outcome.ok
    THEN Try(s, PutSource(s, ovState, api, SourceState(outcome.data, outcome.updatedAt, Null)),
             summaries)
    ELSE Catch(s, outcome.message, [overlay |-> ovState, api |-> api], summaries)

\* variant of refreshOverlay: the lock is not consulted
refreshOverlay_NoLock(lock) == [lock |-> [lock EXCEPT !.isReading = TRUE], begins |-> TRUE]

\* refreshOverlay and refreshApiTasks up to the await: the lock afterwards,
\* and whether a load begins
refreshOverlay(lock) ==
  IF lock.isReading
    THEN [lock |-> [lock EXCEPT !.pendingRead = TRUE], begins |-> FALSE]
    ELSE [lock |-> [lock EXCEPT !.isReading = TRUE], begins |-> TRUE]

\* variant of refreshFinally: pendingRead is reset and no refresh follows
refreshFinally_NoFollowUp(lock) ==
  [lock |-> [isReading |-> FALSE, pendingRead |-> FALSE], begins |-> FALSE]

\* the finally block: the lock is released, and a pending read is taken up
refreshFinally(lock) ==
  LET released == [lock EXCEPT !.isReading = FALSE]
  IN  IF released.pendingRead
        THEN refreshOverlay([released EXCEPT !.pendingRead = FALSE])
        ELSE [lock |-> released, begins |-> FALSE]

LogAsked(log, s) == [log EXCEPT !.asked[s] = @ + 1, !.during[s] = @ + 1]

LogBegun(log, s) ==
  [log EXCEPT !.begun[s] = @ + 1, !.covered[s] = log.asked[s], !.during[s] = 0]

LogEnded(log, s, outcome) ==
  [log EXCEPT !.ended[s] = @ + 1, !.last = [source |-> s, outcome |-> outcome]]

Requests == refreshLog.asked["overlay"] + refreshLog.asked["apiRegular"] + refreshLog.asked["apiPve"]

InitRefresh ==
  /\ RefreshIdle
  /\ DashboardIdle
  /\ SummaryIdle
  /\ EventsIdle
  /\ MergeIdle
  /\ SectionIdle
  /\ BatchIdle
  /\ CoreIdle

\* a call of refreshOverlay() or refreshApiTasks(mode): at startup, by the
\* watcher of the overlay file or by a polling timer
Refresh(s) ==
  /\ Requests < MaxRequests
  /\ LET entered == refreshOverlay(readLocks[s])
         asked == LogAsked(refreshLog, s)
     IN  /\ readLocks' = [readLocks EXCEPT ![s] = entered.lock]
         /\ loads' = [loads EXCEPT ![s] = IF entered.begins THEN @ + 1 ELSE @]
         /\ refreshLog' = IF entered.begins THEN LogBegun(asked, s) ELSE asked
  /\ UNCHANGED <<overlayState, apiState, summaryByKey>>
  /\ UNCHANGED notRefresh

\* a load settles: try, catch and finally of the refresh that awaited it;
\* no response is subscribed, so the broadcasts of rebuildSummaries write nothing
LoadEnds(s) ==
  /\ loads[s] > 0
  /\ \E outcome \in Outcomes(s) :
     \E settled \in {Settle(s, outcome, summaryByKey, overlayState, apiState)} :
       LET left == refreshFinally(readLocks[s])
           ended == LogEnded(refreshLog, s, outcome)
       IN  /\ overlayState' = settled.overlay
           /\ apiState' = settled.api
           /\ summaryByKey' = settled.summaries
           /\ readLocks' = [readLocks EXCEPT ![s] = left.lock]
           /\ loads' = [loads EXCEPT ![s] = IF left.begins THEN @ ELSE @ - 1]
           /\ refreshLog' = IF left.begins THEN LogBegun(ended, s) ELSE ended
  /\ UNCHANGED notRefresh

NextRefresh ==
  \/ \E s \in Sources : Refresh(s)
  \/ \E s \in Sources : LoadEnds(s)

SpecRefresh == InitRefresh /\ [][NextRefresh]_vars

\* a load of the source settles, as the history of the refreshes tells it:
\* within NextRefresh these are the steps of LoadEnds(s), and one is possible
\* exactly when LoadEnds(s) is
Settles(s) ==
  /\ loads[s] > 0
  /\ \E outcome \in Outcomes(s) :
       \/ refreshLog' = LogEnded(refreshLog, s, outcome)
       \/ refreshLog' = LogBegun(LogEnded(refreshLog, s, outcome), s)

\* every load terminates
SpecRefreshFair == SpecRefresh /\ \A s \in Sources : WF_refreshLog(Settles(s))

\* a load of the source settles in the step
Ends(s) == refreshLog'.ended[s] = refreshLog.ended[s] + 1

\* a refresh of the source is requested in the step
Asks(s) == refreshLog'.asked[s] = refreshLog.asked[s] + 1

\* the loads of the source that begin in the step
Begins(s) == refreshLog'.begun[s] - refreshLog.begun[s]

\* the loads of the source in flight: begun and not yet settled
InFlight(s) == refreshLog.begun[s] - refreshLog.ended[s]

AskedWhileLoading ==
  \A s \in Sources :
    (Asks(s) /\ InFlight(s) > 0) => (Begins(s) = 0 /\ readLocks'[s].pendingRead)

OneFollowUp ==
  \A s \in Sources :
    Ends(s) => Begins(s) = (IF refreshLog.during[s] > 0 THEN 1 ELSE 0)

\* C25: for each source at most one load is in flight at any time; a refresh
\* requested while a load runs begins no second load and sets pendingRead; and
\* however many refreshes are requested during one load, exactly one load
\* follows when it settles (none when no refresh was requested).
C25_OneLoadInFlight ==
  /\ [](\A s \in Sources : InFlight(s) <= 1 /\ loads[s] = InFlight(s))
  /\ [][AskedWhileLoading /\ OneFollowUp]_vars

\* two refreshes were requested during the first load of the overlay, and one
\* load followed it
C25_Witness ==
  /\ refreshLog.asked["overlay"] = 3
  /\ refreshLog.begun["overlay"] = 2
  /\ refreshLog.ended["overlay"] >= 1
  /\ refreshLog.covered["overlay"] = 3

LockIdle(s) == readLocks[s] = [isReading |-> FALSE, pendingRead |-> FALSE]

\* no request of the source is outstanding: a load began at or after the
\* latest request, and every load begun has settled
Served(s) == refreshLog.covered[s] = refreshLog.asked[s] /\ InFlight(s) = 0

\* C26: when every load terminates, every refresh request is eventually
\* followed by a load that began at or after the request; whenever no request
\* is outstanding the lock of the source is isReading = false and
\* pendingRead = false; and a lock that is held is released unless a further
\* refresh is requested - whether loads succeed, fail, or the rebuild throws.
C26_NoRefreshLost ==
  /\ \A s \in Sources : \A n \in 1..MaxRequests :
       (refreshLog.asked[s] >= n) ~> (refreshLog.covered[s] >= n)
  /\ [](\A s \in Sources : Served(s) => LockIdle(s))
  /\ \A s \in Sources : \A n \in 1..MaxRequests :
       (~LockIdle(s) /\ refreshLog.asked[s] = n) ~> (LockIdle(s) \/ refreshLog.asked[s] > n)

\* a refresh was requested during a load of the overlay, the load that
\* followed was parsed but its rebuild threw, and the lock is free again
C26_Witness ==
  /\ refreshLog.asked["overlay"] >= 2
  /\ refreshLog.ended["overlay"] = 2
  /\ refreshLog.last # Undef
  /\ refreshLog.last.source = "overlay"
  /\ refreshLog.last.outcome.data = NullPatchOverlay
  /\ overlayState.error = RebuildError
  /\ Served("overlay")
  /\ LockIdle("overlay")

\* the response of GET /latest for a view and a mode: getState(view, mode)
\* with the summary stored under the key, by the fields the dashboard shows
LatestState(summaries, ovState, api, view, mode) ==
  LET config == VIEW_CONFIG(Str(view))
      requiresMode == Truthy(OptGet(config, "requiresMode"))
      key == getSummaryKey(view, IF requiresMode THEN mode ELSE "")
      summary == IF key \in DOMAIN summaries THEN summaries[key] ELSE Summary(<<>>, Null)
  IN  [view |-> view,
       mode |-> IF requiresMode THEN Str(mode) ELSE Null,
       overlay |-> [updatedAt |-> ovState.updatedAt, error |-> ovState.error],
       api |-> IF requiresMode /\ mode \in DOMAIN api
                 THEN [updatedAt |-> OrElse(api[mode].updatedAt, Null),
                       error |-> OrElse(api[mode].error, Null)]
                 ELSE Null,
       sections |-> summary.sections,
       error |-> summary.error]

\* the calls of buildSummary that read the source
CallsReading(s) ==
  IF s = "overlay" THEN {RebuildCalls[i] : i \in 1..Len(RebuildCalls)}
  ELSE {<<"tasks", ModeOfSource(s)>>}

\* the sections built from the data the sources hold, none when the build throws
SectionsBuilt(view, mode, ovState, api) ==
  IF buildSummaryThrows(view, mode, ovState, api) THEN Undef
  ELSE buildSummary(view, mode, ovState, api).sections

\* a failed load of s has settled in the step
FailedLoadKeepsLastGood(s) ==
  LET before == SourceOf(s, overlayState, apiState)
      after == SourceOf(s, overlayState', apiState')
  IN  /\ after.data = before.data
      /\ after.updatedAt = before.updatedAt
      /\ ~Nullish(after.error)
      /\ \A call \in CallsReading(s) :
           LET latest == LatestState(summaryByKey', overlayState', apiState', call[1], call[2])
           IN  /\ latest.sections = SectionsBuilt(call[1], call[2], overlayState', apiState')
               /\ ~Nullish(latest.error)

\* a successful load of s has settled in the step
GoodLoadClearsError(s) ==
  LET after == SourceOf(s, overlayState', apiState')
      outcome == refreshLog'.last.outcome
  IN  /\ after.data = outcome.data
      /\ after.updatedAt = outcome.updatedAt
      /\ after.error = Null

\* C27: a failed overlay or API load sets the error of that source and leaves
\* its data and updatedAt as the last successful load left them, and /latest
\* serves the sections built from that data with a non-null error; a
\* successful load replaces data and updatedAt and clears the error.
C27_FailedLoadKeepsData ==
  [][\A s \in Sources :
       Ends(s) => IF refreshLog'.last.outcome.ok THEN GoodLoadClearsError(s)
                  ELSE FailedLoadKeepsLastGood(s)]_vars

-----------------------------------------------------------------------------
(* The dashboard page: fetchLatest, startPolling, connectEvents and the     *)
(* handlers that call them. A handler runs to its end, and the continuation *)
(* of an aborted fetchLatest runs before the next handler                   *)

\* the /latest requests a page issues in a run
MaxFetches == 4

PageViews == {"tasks", "items"}

PageModes == {"regular", "pve"}

\* nothing rendered yet
NoRender == [from |-> "none", view |-> "", mode |-> "", request |-> 0, issued |-> 0]

\* a newly created AbortController and its fetch, and a new EventSource
NewRequest(page) == [view |-> page.currentView, mode |-> page.currentMode, status |-> "flight"]

NewStream(page) == [view |-> page.currentView, mode |-> page.currentMode, open |-> TRUE]

\* controller.abort(): the fetch of a request in flight is rejected with an
\* AbortError, which its fetchLatest handles in a later microtask
Abort(requests, r) ==
  IF r # 0 /\ requests[r].status = "flight"
    THEN [requests EXCEPT ![r].status = "aborting"]
    ELSE requests

\* fetchLatest up to its await
fetchLatest(page) ==
  LET requests == Abort(page.requests, page.latestFetchController)
  IN  [page EXCEPT !.requests = Append(requests, NewRequest(page)),
                   !.latestFetchController = Len(requests) + 1]

\* the finally block of fetchLatest
fetchFinally(page, r) ==
  [page EXCEPT !.requests[r].status = "settled", !.latestFetchController = 0]

startPolling(page) == IF page.pollTimer THEN page ELSE [page EXCEPT !.pollTimer = TRUE]

\* eventSource.close()
CloseStream(streams, e) == IF e # 0 THEN [streams EXCEPT ![e].open = FALSE] ELSE streams

\* variant of connectEvents: the polling timer is left running
connectEvents_KeepsPolling(page) ==
  IF ~page.hasEventSource THEN [page |-> page, ok |-> FALSE]
  ELSE [page |-> [page EXCEPT
                    !.streams = Append(CloseStream(page.streams, page.eventSource), NewStream(page)),
                    !.eventSource = Len(page.streams) + 1],
        ok |-> TRUE]

\* connectEvents: the page afterwards and the value returned
connectEvents(page) ==
  IF ~page.hasEventSource THEN [page |-> page, ok |-> FALSE]
  ELSE [page |-> [page EXCEPT
                    !.streams = Append(CloseStream(page.streams, page.eventSource), NewStream(page)),
                    !.eventSource = Len(page.streams) + 1,
                    !.pollTimer = FALSE],
        ok |-> TRUE]

\* updateStatus(data) with the state of a view and a mode
Render(page, from, view, mode, r) ==
  [page EXCEPT !.rendered = [from |-> from, view |-> view, mode |-> mode, request |-> r,
                             issued |-> Len(page.requests)],
               !.overlayStatus = "Overlay synced"]

\* init(): the page once its script has run
PageLoaded(view, mode, hasEventSource) ==
  LET blank == [currentView |-> view, currentMode |-> mode, latestFetchController |-> 0,
                pollTimer |-> FALSE, eventSource |-> 0, hasEventSource |-> hasEventSource,
                requests |-> <<>>, streams |-> <<>>, rendered |-> NoRender,
                overlayStatus |-> ""]
      connected == connectEvents(fetchLatest(blank))
  IN  IF connected.ok THEN connected.page ELSE startPolling(connected.page)

\* no continuation of an aborted fetchLatest is waiting to run
NoMicrotask == \A r \in 1..Len(dashboard.requests) : dashboard.requests[r].status # "aborting"

\* a handler that calls fetchLatest may run
MayFetch == NoMicrotask /\ Len(dashboard.requests) < MaxFetches

InitDashboard ==
  /\ \E view \in PageViews, mode \in PageModes, hasEventSource \in BOOLEAN :
       dashboard = PageLoaded(view, mode, hasEventSource)
  /\ RefreshIdle
  /\ SummaryIdle
  /\ EventsIdle
  /\ MergeIdle
  /\ SectionIdle
  /\ BatchIdle
  /\ CoreIdle

\* setView(nextView), from a click in the navigation
SetView(nextView) ==
  /\ MayFetch
  /\ nextView # dashboard.currentView
  /\ dashboard' = connectEvents(fetchLatest([dashboard EXCEPT !.currentView = nextView])).page
  /\ UNCHANGED notDashboard

\* a click on a button of the mode switch
ModeClick(mode) ==
  /\ MayFetch
  /\ mode # dashboard.currentMode
  /\ dashboard' = connectEvents(fetchLatest([dashboard EXCEPT !.currentMode = mode])).page
  /\ UNCHANGED notDashboard

\* the popstate handler
Popstate(nextView, mode) ==
  /\ MayFetch
  /\ dashboard' = connectEvents(fetchLatest([dashboard EXCEPT !.currentView = nextView,
                                                             !.currentMode = mode])).page
  /\ UNCHANGED notDashboard

\* the polling timer fires
PollTick ==
  /\ MayFetch
  /\ dashboard.pollTimer
  /\ dashboard' = fetchLatest(dashboard)
  /\ UNCHANGED notDashboard

\* the continuation of an aborted fetchLatest: catch returns, finally runs
AbortContinues(r) ==
  /\ r \in 1..Len(dashboard.requests)
  /\ dashboard.requests[r].status = "aborting"
  /\ dashboard' = fetchFinally(dashboard, r)
  /\ UNCHANGED notDashboard

\* the response of a request in flight has arrived and is read: rendered when
\* it is ok, reported as a load error otherwise; finally runs
ResponseArrives(r, ok) ==
  /\ NoMicrotask
  /\ r \in 1..Len(dashboard.requests)
  /\ dashboard.requests[r].status = "flight"
  /\ dashboard' =
       fetchFinally(
         IF ok THEN Render(dashboard, "latest", dashboard.requests[r].view,
                           dashboard.requests[r].mode, r)
         ELSE [dashboard EXCEPT !.overlayStatus = "Load error"],
         r)
  /\ UNCHANGED notDashboard

\* an open event stream delivers a summary event
SummaryEvent(e) ==
  /\ NoMicrotask
  /\ e \in 1..Len(dashboard.streams)
  /\ dashboard.streams[e].open
  /\ dashboard' = Render(dashboard, "events", dashboard.streams[e].view,
                         dashboard.streams[e].mode, 0)
  /\ UNCHANGED notDashboard

\* onerror of an open event stream
StreamError(e) ==
  /\ MayFetch
  /\ e \in 1..Len(dashboard.streams)
  /\ dashboard.streams[e].open
  /\ dashboard' =
       fetchLatest(startPolling(
         [dashboard EXCEPT !.overlayStatus = "Connection lost",
                           !.streams = CloseStream(@, dashboard.eventSource)]))
  /\ UNCHANGED notDashboard

NextDashboard ==
  \/ \E nextView \in PageViews : SetView(nextView)
  \/ \E mode \in PageModes : ModeClick(mode)
  \/ \E nextView \in PageViews, mode \in PageModes : Popstate(nextView, mode)
  \/ PollTick
  \/ \E r \in 1..MaxFetches : AbortContinues(r)
  \/ \E r \in 1..MaxFetches, ok \in BOOLEAN : ResponseArrives(r, ok)
  \/ \E e \in 1..MaxFetches : SummaryEvent(e)
  \/ \E e \in 1..MaxFetches : StreamError(e)

SpecDashboard == InitDashboard /\ [][NextDashboard]_vars

\* the /latest requests in flight
InFlightRequests ==
  {r \in 1..Len(dashboard.requests) : dashboard.requests[r].status = "flight"}

\* C29: in the dashboard page at most one /latest request is in flight at any
\* time, and a response to a request is never rendered after a newer request
\* has been issued.
C29_OneLatestRequest ==
  /\ Cardinality(InFlightRequests) <= 1
  /\ dashboard.rendered.from = "latest" => dashboard.rendered.request = dashboard.rendered.issued

OpenStreams == {e \in 1..Len(dashboard.streams) : dashboard.streams[e].open}

\* the current stream was open before the step and is closed after it
CurrentStreamFails ==
  /\ dashboard.eventSource \in OpenStreams
  /\ ~dashboard'.streams[dashboard.eventSource].open
  /\ dashboard'.eventSource = dashboard.eventSource

\* a stream is opened in the step
Opens == Len(dashboard'.streams) > Len(dashboard.streams)

PollingStartsAfterFailure ==
  (~dashboard.pollTimer /\ dashboard'.pollTimer) => CurrentStreamFails

OpeningClosesAndStopsPolling ==
  Opens => /\ \A e \in 1..Len(dashboard.streams) : ~dashboard'.streams[e].open
           /\ ~dashboard'.pollTimer

\* C30: in the dashboard page the event stream and the polling timer are never
\* active together and at most one event stream is open; opening a stream
\* closes the previous one and stops polling; polling starts only when the
\* current stream has errored and been closed, or, at page load, when
\* EventSource is unavailable.
C30_StreamOrPolling ==
  /\ [](/\ ~(dashboard.pollTimer /\ OpenStreams # {})
        /\ Cardinality(OpenStreams) <= 1
        /\ (dashboard.pollTimer /\ dashboard.streams = <<>>) => ~dashboard.hasEventSource)
  /\ [][PollingStartsAfterFailure /\ OpeningClosesAndStopsPolling]_vars

\* a stream errored and polling started, then a change of view opened a new
\* stream and polling stopped
C30_Witness ==
  /\ Len(dashboard.streams) >= 2
  /\ OpenStreams = {Len(dashboard.streams)}
  /\ ~dashboard.pollTimer
  /\ \E r \in 1..Len(dashboard.requests) :
       dashboard.requests[r].view # dashboard.currentView
  /\ dashboard.overlayStatus = "Connection lost"

====
